---------------------------- MODULE Spec2Model ----------------------------
(***************************************************************************)
(* Model of the recommendation core of the virtual try-on backend:         *)
(*   - VisualSimilaritySearchEngine / VisualRecommendationService          *)
(*     (backend/app/services/visual_similarity_service.py)                 *)
(*   - RecommendationEngine                                                *)
(*     (backend/app/services/recommendation_service.py)                    *)
(*                                                                         *)
(* Feature vectors are 2-dimensional integer vectors; the three non-zero   *)
(* ones have Euclidean norm UnitNorm, so an inner product is a cosine      *)
(* similarity scaled by UnitNorm^2.  Scores of the recommendation engine   *)
(* are fixed-point numbers scaled by Scale.                                *)
(***************************************************************************)
EXTENDS Integers, Sequences, FiniteSets, TLC

\* ------------------------------------------------------------------ bounds
MaxItems == 3      \* entries the similarity index may hold
MaxBatch == 2      \* rows of one add_items call
MaxK     == 2      \* largest k / limit a caller asks for

\* --------------------------------------------------------------- constants
Dim      == 2
UnitNorm == 5
NegInf   == 0 - 1000          \* distance faiss reports with a padding label

None     == "None"
NoMeta   == "NoMeta"

Vectors    == { <<5, 0>>, <<4, 3>>, <<0, 5>> }
IndexIds   == { "item_001", "item_002" }
Categories == { "top", "bottom" }

VARIABLES
    index,       \* VisualSimilaritySearchEngine.index : the rows of the IndexFlatIP
    item_ids,    \* VisualSimilaritySearchEngine.item_ids
    metadata,    \* VisualSimilaritySearchEngine.metadata : item_id -> category | NoMeta
    disk,        \* save_dir : the two artifacts faiss_index.bin and item_data.pkl
    fresh,       \* <<e, S>> : a second engine e, constructed empty and then load()ed
                 \*            from the artifacts that save() wrote from state S
    snap,        \* <<S>> : the engine state S that the last save() was called on
    last,        \* the last operation and what it returned
    th,          \* callers that run engine methods statement by statement
    tryons,      \* table tryon_history, in id order (row i has id i)
    favorites,   \* table favorites : the ids of the favorited try-ons
    wardrobe,    \* table wardrobe_items : << user_id, category >>
    now,         \* the clock, in days
    rec,         \* the last get_recommendations call and what it returned
    self,        \* the RecommendationEngine : use_visual_similarity and weights
    interactions,\* table recommendation_interactions, in id order
    call,        \* the last call of another engine method and what it returned
    hashseed,    \* the process: item_id -> hash(item_id) % 5 under its PYTHONHASHSEED
    services,    \* the process: the VisualRecommendationService objects constructed
    _visual_rec_service  \* the module global: << >> for None, else << i >> for services[i]

\* the state of the Python process outside the engines
proc == << hashseed, services, _visual_rec_service >>

\* ------------------------------------------------------------- helpers
Min(a, b) == IF a < b THEN a ELSE b

Range(s) == { s[i] : i \in 1..Len(s) }

Dot(a, b) == a[1] * b[1] + a[2] * b[2]

RECURSIVE Take(_, _)
Take(s, n) == IF n <= 0 \/ s = <<>> THEN <<>> ELSE <<Head(s)>> \o Take(Tail(s), n - 1)

\* floor of the square root
RECURSIVE ISqrtIn(_, _, _)
ISqrtIn(lo, hi, x) ==
    IF lo >= hi THEN lo
    ELSE LET mid == (lo + hi + 1) \div 2
         IN IF mid * mid <= x THEN ISqrtIn(mid, hi, x) ELSE ISqrtIn(lo, mid - 1, x)
ISqrt(x) == ISqrtIn(0, 46340, x)

\* ------------------------------------------------- FashionFeatureExtractor
\* An image file is what the extractor sees of it: whether Image.open can load
\* it, and the features self.model gives for it (before normalization).
Image(loads, raw) == [ loads |-> loads, raw |-> raw ]
Images == { Image(TRUE, <<10, 0>>), Image(TRUE, <<8, 6>>), Image(TRUE, <<0, 10>>),
            Image(FALSE, <<0, 0>>) }

\* np.zeros(2048)
Zeros == <<0, 0>>

\* self.model(torch.zeros(3, 224, 224)) : the features of an all-black image
BlackFeatures == <<6, 8>>

\* features / np.linalg.norm(features), a unit vector being held as UnitNorm
L2Normalize(features) ==
    SubSeq([ i \in 1..Dim |-> (UnitNorm * features[i]) \div ISqrt(Dot(features, features)) ],
           1, Dim)

extract_features(image) ==
    IF image.loads THEN L2Normalize(image.raw)
    ELSE Zeros                  \* except Exception: return np.zeros(2048)

\* one batch: a tensor per image, zeros for an image that fails to load, the
\* model on the stacked tensors, and the rows normalized
ExtractBatch(batch_paths) ==
    SubSeq([ j \in 1..Len(batch_paths) |->
               L2Normalize(IF batch_paths[j].loads THEN batch_paths[j].raw
                           ELSE BlackFeatures) ],
           1, Len(batch_paths))

\* for i in range(0, len(image_paths), batch_size)
RECURSIVE BatchLoop(_, _)
BatchLoop(image_paths, batch_size) ==
    IF image_paths = <<>> THEN <<>>
    ELSE LET n == Min(batch_size, Len(image_paths))
         IN << ExtractBatch(SubSeq(image_paths, 1, n)) >>
              \o BatchLoop(SubSeq(image_paths, n + 1, Len(image_paths)), batch_size)

\* np.vstack(all_features)
RECURSIVE VStack(_)
VStack(all_features) ==
    IF all_features = <<>> THEN <<>> ELSE Head(all_features) \o VStack(Tail(all_features))

extract_features_batch(image_paths, batch_size) ==
    LET all_features == BatchLoop(image_paths, batch_size)
    IN IF all_features = <<>>
       THEN [ raised |-> "ValueError", value |-> <<>> ]   \* np.vstack([]) raises
       ELSE [ raised |-> None, value |-> VStack(all_features) ]

DefaultBatchSize == 32

NoMetadata == [ i \in IndexIds |-> NoMeta ]

Engine(ix, ids, md) == [ index |-> ix, item_ids |-> ids, metadata |-> md ]

\* VisualSimilaritySearchEngine.__init__
NewEngine == Engine(<<>>, <<>>, NoMetadata)

Eng == Engine(index, item_ids, metadata)

\* ------------------------------------------------ faiss.IndexFlatIP.search
\* k labels (0-based row numbers) by decreasing inner product, the earlier row
\* first among equal products; label -1 with distance NegInf pads the answer
\* when the index holds fewer than k rows.
RECURSIVE FlatIPSearch(_, _, _, _)
FlatIPSearch(rows, q, k, taken) ==
    IF k <= 0 THEN <<>>
    ELSE LET cand == (1..Len(rows)) \ taken IN
         IF cand = {}
         THEN << [label |-> 0 - 1, distance |-> NegInf] >> \o FlatIPSearch(rows, q, k - 1, taken)
         ELSE LET best == CHOOSE p \in cand : \A r \in cand :
                              \/ Dot(rows[p], q) > Dot(rows[r], q)
                              \/ Dot(rows[p], q) = Dot(rows[r], q) /\ p <= r
              IN << [label |-> best - 1, distance |-> Dot(rows[best], q)] >>
                 \o FlatIPSearch(rows, q, k - 1, taken \cup {best})

\* Python list indexing ids[idx]: a negative idx counts from the end.
PyIndex(ids, idx) == IF idx >= 0 THEN ids[idx + 1] ELSE ids[Len(ids) + 1 + idx]

\* --------------------------------------- VisualSimilaritySearchEngine.search
SearchHit(e, h) ==
    [ item_id          |-> PyIndex(e.item_ids, h.label),
      similarity_score |-> h.distance,
      category         |-> e.metadata[PyIndex(e.item_ids, h.label)] ]

\* asks faiss for one neighbour too few
search_short(e, q, k) ==
    IF Len(e.item_ids) = 0 THEN <<>>
    ELSE LET hits == FlatIPSearch(e.index, q, Min(k, Len(e.item_ids)) - 1, {})
             Keep(h) == h.label < Len(e.item_ids)
             kept == SelectSeq(hits, Keep)
         IN [ i \in 1..Len(kept) |-> SearchHit(e, kept[i]) ]

\* the loop over zip(distances[0], indices[0])
format_results(e, hits) ==
    LET Keep(h) == h.label < Len(e.item_ids)
        kept == SelectSeq(hits, Keep)
    IN [ i \in 1..Len(kept) |-> SearchHit(e, kept[i]) ]

search(e, q, k) ==
    IF Len(e.item_ids) = 0 THEN <<>>
    ELSE format_results(e, FlatIPSearch(e.index, q, Min(k, Len(e.item_ids)), {}))


\* ------------------------------------ VisualSimilaritySearchEngine.add_items
\* for item_id, meta in zip(item_ids, metadata): self.metadata[item_id] = meta
RECURSIVE StoreMetadata(_, _, _)
StoreMetadata(md, ids, metas) ==
    IF ids = <<>> \/ metas = <<>> THEN md
    ELSE StoreMetadata([md EXCEPT ![Head(ids)] = Head(metas)], Tail(ids), Tail(metas))

\* an index that is a map: a vector added under an item_id it holds already
\* takes the place of the old one
RECURSIVE PutItems(_, _, _)
PutItems(e, features, ids) ==
    IF ids = <<>> THEN e
    ELSE LET held == \E p \in 1..Len(e.item_ids) : e.item_ids[p] = Head(ids)
             at   == CHOOSE p \in 1..Len(e.item_ids) : e.item_ids[p] = Head(ids)
         IN PutItems([ e EXCEPT !.index = IF held THEN [ @ EXCEPT ![at] = Head(features) ]
                                          ELSE Append(@, Head(features)),
                                 !.item_ids = IF held THEN @ ELSE Append(@, Head(ids)) ],
                     Tail(features), Tail(ids))

add_items_as_map(e, features, ids, metas) ==
    LET put == PutItems(e, features, ids)
    IN [ put EXCEPT !.metadata = IF metas = <<>> THEN e.metadata
                                 ELSE StoreMetadata(e.metadata, ids, metas) ]

\* metas = <<>> is the call with metadata None (or an empty list): `if metadata:`
add_items(e, features, ids, metas) ==
    [ index    |-> e.index \o features,
      item_ids |-> e.item_ids \o ids,
      metadata |-> IF metas = <<>> THEN e.metadata
                   ELSE StoreMetadata(e.metadata, ids, metas) ]

\* --------------------------- VisualRecommendationService.get_similar_items_by_id
\* list.index : position of the first occurrence
FirstIndex(ids, x) == CHOOSE i \in 1..Len(ids) : ids[i] = x /\ \A j \in 1..(i - 1) : ids[j] # x

Returned(v) == [ raised |-> None, value |-> v ]
Raised(err) == [ raised |-> err, value |-> <<>> ]

\* drops the best hit instead of the hits that carry the query's item_id
get_similar_items_by_id_drop_first(e, item_id, k, category_filter) ==
    IF item_id \notin Range(e.item_ids)
    THEN Returned(<<>>)
    ELSE LET idx            == FirstIndex(e.item_ids, item_id)
             query_features == e.index[idx]
             InCat(it)      == it.category = category_filter
             hits           == search(e, query_features, k + 1)
             similar        == IF hits = <<>> THEN <<>> ELSE Tail(hits)
             filtered       == IF category_filter # None
                               THEN SelectSeq(similar, InCat) ELSE similar
         IN Returned(Take(filtered, k))

\* goes to item_ids.index(item_id) without the membership test
get_similar_items_by_id_unchecked(e, item_id, k, category_filter) ==
    IF item_id \notin Range(e.item_ids)
    THEN Raised("ValueError")
    ELSE LET idx            == FirstIndex(e.item_ids, item_id)
             query_features == e.index[idx]
             NotSelf(it)    == it.item_id # item_id
             InCat(it)      == it.category = category_filter
             similar        == SelectSeq(search(e, query_features, k + 1), NotSelf)
             filtered       == IF category_filter # None
                               THEN SelectSeq(similar, InCat) ELSE similar
         IN Returned(Take(filtered, k))

get_similar_items_by_id(e, item_id, k, category_filter) ==
    IF item_id \notin Range(e.item_ids)
    THEN Returned(<<>>)                       \* logger.warning(...); return []
    ELSE LET idx            == FirstIndex(e.item_ids, item_id)
             query_features == e.index[idx]   \* index.reconstruct(idx)
             NotSelf(it)    == it.item_id # item_id
             InCat(it)      == it.category = category_filter
             similar        == SelectSeq(search(e, query_features, k + 1), NotSelf)
             filtered       == IF category_filter # None
                               THEN SelectSeq(similar, InCat) ELSE similar
         IN Returned(Take(filtered, k))

\* ------------------------------------- VisualSimilaritySearchEngine.save / load
\* an artifact of the directory is <<>> while the file does not exist, else <<content>>

\* faiss.write_index : dimension, row count and the rows
write_index(ix) == [ d |-> Dim, ntotal |-> Len(ix), xb |-> ix ]
\* faiss.read_index
read_index(f) == Take(f.xb, f.ntotal)

\* pickle.dump({'item_ids': ..., 'metadata': ...})
dump_item_data(e) == [ item_ids |-> e.item_ids, metadata |-> e.metadata ]

save(e) == [ faiss_index |-> << write_index(e.index) >>, item_data |-> << dump_item_data(e) >> ]

\* restores the index and the item_ids but keeps the engine's own metadata
load_no_metadata(e, d) ==
    Engine(read_index(d.faiss_index[1]), d.item_data[1].item_ids, e.metadata)

\* load replaces the index first, then item_ids and metadata; what it has
\* assigned when read_index or open raises stays assigned
load(e, d) ==
    IF d.faiss_index = <<>> THEN e
    ELSE IF d.item_data = <<>> THEN [ e EXCEPT !.index = read_index(d.faiss_index[1]) ]
    ELSE Engine(read_index(d.faiss_index[1]), d.item_data[1].item_ids, d.item_data[1].metadata)

\* the exception load ends with, or None
load_raised(d) ==
    IF d.faiss_index = <<>> THEN "RuntimeError"          \* faiss.read_index
    ELSE IF d.item_data = <<>> THEN "FileNotFoundError"  \* open(..., 'rb')
    ELSE None

EmptyDir == [ faiss_index |-> <<>>, item_data |-> <<>> ]

\* ---------------------------------------------------------------- actions
NoOp == [ op |-> "init", item_id |-> None, q |-> <<0, 0>>, k |-> 0,
          category |-> None, raised |-> None, value |-> <<>>, pre |-> <<>> ]

\* pre = <<e>> : the engine state e in which a query was called
Op(name, id, q, k, cat, ret) ==
    [ op |-> name, item_id |-> id, q |-> q, k |-> k,
      category |-> cat, raised |-> ret.raised, value |-> ret.value, pre |-> <<>> ]

Query(name, id, q, k, cat, ret) == [ Op(name, id, q, k, cat, ret) EXCEPT !.pre = << Eng >> ]

SetEngine(e) ==
    /\ index'    = e.index
    /\ item_ids' = e.item_ids
    /\ metadata' = e.metadata

\* Calls are made one at a time: `last` holds the value a call returned until
\* the caller has taken it (Return), and only then is the next call made.
Idle == last.op = "init"

Return ==
    /\ ~Idle
    /\ last' = NoOp
    /\ fresh' = <<>>          \* a second engine is dropped with the call that used it
    /\ UNCHANGED << index, item_ids, metadata, disk, snap, th >>
    /\ UNCHANGED << tryons, favorites, wardrobe, now, rec, self, proc, interactions, call >>

\* build_index_from_catalog's call: add_items(features, item_ids, metadata)
AddItems ==
    /\ Idle
    /\ \E n \in 1..Min(MaxBatch, MaxItems - Len(item_ids)) :
        \E features \in [1..n -> Vectors], ids \in [1..n -> IndexIds], metas \in [1..n -> Categories] :
          /\ SetEngine(add_items(Eng, features, ids, metas))
          /\ last' = Op("add_items", None, <<0, 0>>, n, None, Returned(<<>>))
    /\ UNCHANGED << disk, fresh, snap, th >>
    /\ UNCHANGED << tryons, favorites, wardrobe, now, rec, self, proc, interactions, call >>

\* VisualRecommendationService.add_item_to_index(item_id, image_path, metadata)
AddItemToIndexFrom(images) ==
    /\ Idle
    /\ Len(item_ids) + 1 <= MaxItems
    /\ \E image \in images, id \in IndexIds, meta \in Categories \cup {None} :
        /\ SetEngine(add_items(Eng, << extract_features(image) >>, <<id>>,
                               IF meta = None THEN <<>> ELSE <<meta>>))
        /\ last' = Op("add_item_to_index", None, <<0, 0>>, 1, None, Returned(<<>>))
    /\ UNCHANGED << disk, fresh, snap, th >>
    /\ UNCHANGED << tryons, favorites, wardrobe, now, rec, self, proc, interactions, call >>

\* the upload is an image
AddItemToIndex == AddItemToIndexFrom({ image \in Images : image.loads })

\* the upload is a file that Image.open cannot load
AddUnreadableItemToIndex == AddItemToIndexFrom({ image \in Images : ~image.loads })

Search ==
    /\ Idle
    /\ \E q \in Vectors, k \in 1..MaxK :
        last' = Query("search", None, q, k, None, Returned(search(Eng, q, k)))
    /\ UNCHANGED << index, item_ids, metadata, disk, fresh, snap, th >>
    /\ UNCHANGED << tryons, favorites, wardrobe, now, rec, self, proc, interactions, call >>

GetSimilarItemsById ==
    /\ Idle
    /\ \E id \in IndexIds, k \in 1..MaxK, cat \in Categories \cup {None} :
        last' = Query("get_similar_items_by_id", id, <<0, 0>>, k, cat,
                      get_similar_items_by_id(Eng, id, k, cat))
    /\ UNCHANGED << index, item_ids, metadata, disk, fresh, snap, th >>
    /\ UNCHANGED << tryons, favorites, wardrobe, now, rec, self, proc, interactions, call >>

Save ==
    /\ Idle
    /\ disk' = save(Eng)
    /\ snap' = << Eng >>
    /\ last' = Op("save", None, <<0, 0>>, 0, None, Returned(<<>>))
    /\ UNCHANGED << index, item_ids, metadata, fresh, th >>
    /\ UNCHANGED << tryons, favorites, wardrobe, now, rec, self, proc, interactions, call >>

\* a fresh engine (VisualRecommendationService.__init__) load()s the directory;
\* SearchFresh is the search the caller then runs on it
LoadFresh ==
    /\ Idle
    /\ disk # EmptyDir
    /\ fresh' = << load(NewEngine, disk), snap[1] >>
    /\ last' = Op("load", None, <<0, 0>>, 0, None, Returned(<<>>))
    /\ UNCHANGED << index, item_ids, metadata, disk, snap, th >>
    /\ UNCHANGED << tryons, favorites, wardrobe, now, rec, self, proc, interactions, call >>

SearchFresh ==
    /\ last.op = "load"
    /\ fresh # <<>>
    /\ \E q \in Vectors, k \in 1..MaxK :
        last' = Op("search_loaded", None, q, k, None, Returned(search(fresh[1], q, k)))
    /\ UNCHANGED << index, item_ids, metadata, disk, fresh, snap, th >>
    /\ UNCHANGED << tryons, favorites, wardrobe, now, rec, self, proc, interactions, call >>

\* ------------------------------------------------- catalogs and directories
\* a catalog entry: its id, whether os.path.exists(image_path), the image file
\* and its category
CatalogEntry(id, exists, image, category) ==
    [ id |-> id, exists |-> exists, image |-> image, category |-> category ]

CatalogEntries ==
    { CatalogEntry("item_001", TRUE, Image(TRUE, <<10, 0>>), "top"),
      CatalogEntry("item_002", FALSE, Image(FALSE, <<0, 0>>), "bottom"),
      CatalogEntry("item_002", TRUE, Image(TRUE, <<8, 6>>), "bottom") }

Catalogs == UNION { [ 1..n -> CatalogEntries ] : n \in 0..MaxBatch }

\* build_index_from_catalog(catalog, image_dir, save_dir)
BuildIndex ==
    /\ Idle
    /\ \E catalog \in Catalogs, save_dir \in BOOLEAN :
         LET kept        == SelectSeq(catalog, LAMBDA item : item.exists)
             image_paths == [ j \in 1..Len(kept) |-> kept[j].image ]
             ids         == [ j \in 1..Len(kept) |-> kept[j].id ]
             metas       == [ j \in 1..Len(kept) |-> kept[j].category ]
             features    == extract_features_batch(image_paths, DefaultBatchSize)
             built       == add_items(Eng, features.value, ids, metas)
         IN /\ Len(item_ids) + Len(kept) <= MaxItems
            /\ IF features.raised # None
               THEN /\ UNCHANGED << index, item_ids, metadata, disk, snap >>
                    /\ last' = Query("build_index_from_catalog", None, <<0, 0>>,
                                     Len(catalog), None, Raised(features.raised))
               ELSE /\ SetEngine(built)
                    /\ disk' = IF save_dir THEN save(built) ELSE disk
                    /\ snap' = IF save_dir THEN << built >> ELSE snap
                    /\ last' = Query("build_index_from_catalog", None, <<0, 0>>,
                                     Len(catalog), None, Returned(<<>>))
    /\ UNCHANGED << fresh, th >>
    /\ UNCHANGED << tryons, favorites, wardrobe, now, rec, self, proc, interactions, call >>

\* add_items(features, item_ids) as any caller may call it: nothing compares
\* the number of rows with the number of ids
AddItemsUnchecked ==
    /\ Idle
    /\ \E n \in 0..MaxBatch, m \in 0..MaxBatch :
         /\ Len(index) + n <= MaxItems
         /\ Len(item_ids) + m <= MaxItems
         /\ \E features \in [ 1..n -> { <<0, 5>> } ], ids \in [ 1..m -> IndexIds ] :
              /\ SetEngine(add_items(Eng, features, ids, <<>>))
              /\ last' = Query("add_items", None, <<0, 0>>, n, None, Returned(<<>>))
    /\ UNCHANGED << disk, fresh, snap, th >>
    /\ UNCHANGED << tryons, favorites, wardrobe, now, rec, self, proc, interactions, call >>

\* one of the two files of the directory is gone, or can no longer be read
LoseArtifact ==
    /\ Idle
    /\ disk.faiss_index # <<>> /\ disk.item_data # <<>>
    /\ \/ disk' = [ disk EXCEPT !.faiss_index = <<>> ]
       \/ disk' = [ disk EXCEPT !.item_data = <<>> ]
    /\ UNCHANGED << index, item_ids, metadata, fresh, snap, last, th >>
    /\ UNCHANGED << tryons, favorites, wardrobe, now, rec, self, proc, interactions, call >>

\* search_engine.load(load_dir) on the engine in use
Load ==
    /\ Idle
    /\ SetEngine(load(Eng, disk))
    /\ last' = Query("load", None, <<0, 0>>, 0, None,
                     IF load_raised(disk) = None THEN Returned(<<>>)
                     ELSE Raised(load_raised(disk)))
    /\ UNCHANGED << disk, fresh, snap, th >>
    /\ UNCHANGED << tryons, favorites, wardrobe, now, rec, self, proc, interactions, call >>

\* the index is filled
NextCatalog == BuildIndex \/ AddItemsUnchecked \/ Return

\* the index is built, saved and loaded again
NextLoad == BuildIndex \/ LoseArtifact \/ Load \/ Return

IndexInit ==
    /\ index = <<>>
    /\ item_ids = <<>>
    /\ metadata = NoMetadata
    /\ disk = EmptyDir
    /\ fresh = <<>>
    /\ snap = <<>>
    /\ last = NoOp

\* ----------------------------------------------------------------------
\* Callers on threads of their own.  The engine takes no lock, so a method
\* runs statement by statement and another caller may run in between.
\*   w : add_item_to_index      b : build_index_from_catalog (add_items, save)
\*   r : search
\* ----------------------------------------------------------------------
Writers == { "w", "b" }
Readers == { "r" }
WriterId(t) == IF t = "w" THEN "item_001" ELSE "item_002"

IdleThread == [ pc |-> "idle", f |-> <<0, 0>>, id |-> None, meta |-> None,
                q |-> <<0, 0>>, k |-> 0, hits |-> <<>>, result |-> <<>> ]

ConcInit == th = [ t \in Writers \cup Readers |-> IdleThread ]

Goto(t, label) == th' = [th EXCEPT ![t].pc = label]

\* the call is made: add_items(features, [item_id], [metadata])
AddCall(t) ==
    /\ th[t].pc = "idle"
    /\ \E f \in Vectors, meta \in Categories :
         th' = [th EXCEPT ![t] = [@ EXCEPT !.pc = "add_index", !.f = f,
                                           !.id = WriterId(t), !.meta = meta]]
    /\ UNCHANGED << index, item_ids, metadata, disk, fresh, snap, last >>
    /\ UNCHANGED << tryons, favorites, wardrobe, now, rec, self, proc, interactions, call >>

\* self.index.add(features)
AddIndex(t) ==
    /\ th[t].pc = "add_index"
    /\ index' = index \o << th[t].f >>
    /\ Goto(t, "add_ids")
    /\ UNCHANGED << item_ids, metadata, disk, fresh, snap, last >>
    /\ UNCHANGED << tryons, favorites, wardrobe, now, rec, self, proc, interactions, call >>

\* self.item_ids.extend(item_ids)
AddIds(t) ==
    /\ th[t].pc = "add_ids"
    /\ item_ids' = item_ids \o << th[t].id >>
    /\ Goto(t, "add_meta")
    /\ UNCHANGED << index, metadata, disk, fresh, snap, last >>
    /\ UNCHANGED << tryons, favorites, wardrobe, now, rec, self, proc, interactions, call >>

\* for item_id, meta in zip(item_ids, metadata): self.metadata[item_id] = meta
\* build_index_from_catalog goes on to save(save_dir)
AddMeta(t) ==
    /\ th[t].pc = "add_meta"
    /\ metadata' = StoreMetadata(metadata, << th[t].id >>, << th[t].meta >>)
    /\ Goto(t, IF t = "b" THEN "save_index" ELSE "done")
    /\ UNCHANGED << index, item_ids, disk, fresh, snap, last >>
    /\ UNCHANGED << tryons, favorites, wardrobe, now, rec, self, proc, interactions, call >>

\* faiss.write_index(self.index, .../faiss_index.bin)
SaveIndex(t) ==
    /\ th[t].pc = "save_index"
    /\ disk' = [disk EXCEPT !.faiss_index = << write_index(index) >>]
    /\ Goto(t, "save_data")
    /\ UNCHANGED << index, item_ids, metadata, fresh, snap, last >>
    /\ UNCHANGED << tryons, favorites, wardrobe, now, rec, self, proc, interactions, call >>

\* pickle.dump({'item_ids': ..., 'metadata': ...}, .../item_data.pkl)
SaveData(t) ==
    /\ th[t].pc = "save_data"
    /\ disk' = [disk EXCEPT !.item_data = << dump_item_data(Eng) >>]
    /\ Goto(t, "done")
    /\ UNCHANGED << index, item_ids, metadata, fresh, snap, last >>
    /\ UNCHANGED << tryons, favorites, wardrobe, now, rec, self, proc, interactions, call >>

\* the call is made: search(query_features, k)
SearchCall(t) ==
    /\ th[t].pc = "idle"
    /\ \E q \in Vectors, k \in 1..MaxK :
         th' = [th EXCEPT ![t] = [@ EXCEPT !.pc = "search_check", !.q = q, !.k = k]]
    /\ UNCHANGED << index, item_ids, metadata, disk, fresh, snap, last >>
    /\ UNCHANGED << tryons, favorites, wardrobe, now, rec, self, proc, interactions, call >>

\* if self.index is None or len(self.item_ids) == 0: return []
SearchCheck(t) ==
    /\ th[t].pc = "search_check"
    /\ Goto(t, IF Len(item_ids) = 0 THEN "done" ELSE "search_index")
    /\ UNCHANGED << index, item_ids, metadata, disk, fresh, snap, last >>
    /\ UNCHANGED << tryons, favorites, wardrobe, now, rec, self, proc, interactions, call >>

\* distances, indices = self.index.search(query_features, min(k, len(self.item_ids)))
SearchIndex(t) ==
    /\ th[t].pc = "search_index"
    /\ th' = [th EXCEPT ![t] = [@ EXCEPT !.pc = "search_format",
                 !.hits = FlatIPSearch(index, th[t].q, Min(th[t].k, Len(item_ids)), {})]]
    /\ UNCHANGED << index, item_ids, metadata, disk, fresh, snap, last >>
    /\ UNCHANGED << tryons, favorites, wardrobe, now, rec, self, proc, interactions, call >>

\* the loop that builds the results, and return results
SearchFormat(t) ==
    /\ th[t].pc = "search_format"
    /\ th' = [th EXCEPT ![t] = [@ EXCEPT !.pc = "done",
                 !.result = format_results(Eng, th[t].hits)]]
    /\ UNCHANGED << index, item_ids, metadata, disk, fresh, snap, last >>
    /\ UNCHANGED << tryons, favorites, wardrobe, now, rec, self, proc, interactions, call >>

NextConc ==
    \/ \E t \in Writers : AddCall(t) \/ AddIndex(t) \/ AddIds(t) \/ AddMeta(t)
    \/ SaveIndex("b") \/ SaveData("b")
    \/ \E t \in Readers : SearchCall(t) \/ SearchCheck(t) \/ SearchIndex(t) \/ SearchFormat(t)

\* ------------------------------------------ get_visual_recommendation_service
\* the default of index_dir and another directory
IndexDirs == { "data/visual_index", "data/other_index" }

\* the function takes no lock: a caller runs it statement by statement
GetServiceCall(t) ==
    /\ th[t].pc = "idle"
    /\ \E index_dir \in IndexDirs :
         th' = [th EXCEPT ![t] = [@ EXCEPT !.pc = "service_check", !.id = index_dir]]
    /\ UNCHANGED << index, item_ids, metadata, disk, fresh, snap, last >>
    /\ UNCHANGED << tryons, favorites, wardrobe, now, rec, self, proc, interactions, call >>

\* if _visual_rec_service is None:
GetServiceCheck(t) ==
    /\ th[t].pc = "service_check"
    /\ Goto(t, IF _visual_rec_service = <<>> THEN "service_create" ELSE "service_return")
    /\ UNCHANGED << index, item_ids, metadata, disk, fresh, snap, last >>
    /\ UNCHANGED << tryons, favorites, wardrobe, now, rec, self, proc, interactions, call >>

\* _visual_rec_service = VisualRecommendationService(index_dir=index_dir)
GetServiceCreate(t) ==
    /\ th[t].pc = "service_create"
    /\ services' = Append(services, [ index_dir |-> th[t].id ])
    /\ _visual_rec_service' = << Len(services) + 1 >>
    /\ Goto(t, "service_return")
    /\ UNCHANGED << index, item_ids, metadata, disk, fresh, snap, last >>
    /\ UNCHANGED << tryons, favorites, wardrobe, now, rec, self, hashseed, interactions, call >>

\* return _visual_rec_service
GetServiceReturn(t) ==
    /\ th[t].pc = "service_return"
    /\ th' = [th EXCEPT ![t] = [@ EXCEPT !.pc = "service_done", !.result = _visual_rec_service]]
    /\ UNCHANGED << index, item_ids, metadata, disk, fresh, snap, last >>
    /\ UNCHANGED << tryons, favorites, wardrobe, now, rec, self, proc, interactions, call >>

\* the caller is done with the service it got
GetServiceDone(t) ==
    /\ th[t].pc = "service_done"
    /\ th' = [th EXCEPT ![t] = IdleThread]
    /\ UNCHANGED << index, item_ids, metadata, disk, fresh, snap, last >>
    /\ UNCHANGED << tryons, favorites, wardrobe, now, rec, self, proc, interactions, call >>

NextSingleton ==
    \E t \in Writers \cup Readers :
        \/ GetServiceCall(t) \/ GetServiceCheck(t) \/ GetServiceCreate(t)
        \/ GetServiceReturn(t) \/ GetServiceDone(t)

\* ----------------------------------------------------------------------
\*                          RecommendationEngine
\* Scores are fixed-point: a strategy's raw score is scaled by Scale, a
\* weight by WeightScale, a blended score by Scale * WeightScale.
\* ----------------------------------------------------------------------
MaxTryons == 2      \* rows of tryon_history
TickDays  == 40     \* days the clock advances in one step
MaxNow    == 40     \* last day of the clock

Scale       == 1000
WeightScale == 100

Users == { 1, 2 }

\* an engine that drops the visual weight without raising the others
RecommendationEngineUnbalanced(use_visual_similarity) ==
    [ use_visual_similarity |-> use_visual_similarity,
      weights |-> IF use_visual_similarity
                  THEN [ try_on_history |-> 25, favorites |-> 20, wardrobe |-> 15,
                         similar_users |-> 15, trending |-> 10, visual_similarity |-> 15 ]
                  ELSE [ try_on_history |-> 25, favorites |-> 20, wardrobe |-> 15,
                         similar_users |-> 15, trending |-> 10 ] ]

\* RecommendationEngine.__init__ : a weight w is held as w * WeightScale
RecommendationEngine(use_visual_similarity) ==
    [ use_visual_similarity |-> use_visual_similarity,
      weights |-> IF use_visual_similarity
                  THEN [ try_on_history |-> 25, favorites |-> 20, wardrobe |-> 15,
                         similar_users |-> 15, trending |-> 10, visual_similarity |-> 15 ]
                  ELSE [ try_on_history |-> 30, favorites |-> 25, wardrobe |-> 20,
                         similar_users |-> 15, trending |-> 10 ] ]

\* self.weights[strategy]
Weight(strategy) == self.weights[strategy]

\* windows and limits of the queries
ContentDays     == 30
ContentLimit    == 20
CollabDays      == 60
CollabLimit     == 15
TrendingDays    == 7
VisualDays      == 14
VisualLimit     == 5
VisualK         == 5
ProfileLimit    == 50
SimilarUsers    == 10

\* the metadata a try-on row carries; a key that is missing is None, and a row
\* whose metadata is None reads as the empty dict (`tryon.metadata or {}`)
\* a price is held in cents; 0 is a price that is missing (or falsy)
MdNone  == [ item_id |-> None, category |-> None, color |-> None,
             style |-> None, brand |-> None, price |-> 0, image |-> <<>> ]
MdTee   == [ item_id |-> "item_001", category |-> "top", color |-> "white",
             style |-> None, brand |-> "Nike", price |-> 2999, image |-> << <<5, 0>> >> ]
MdJeans == [ item_id |-> "item_002", category |-> "bottom", color |-> "blue",
             style |-> "casual", brand |-> None, price |-> 0, image |-> << <<0, 5>> >> ]
Mds == { MdNone, MdTee, MdJeans }

\* the user the recommendations are asked for; the other users try the tee
Requester == 1
MdsOf(u) == IF u = Requester THEN Mds ELSE { MdTee }

\* f"item_{tryon.id}"
RecordItemIds == << "item_1", "item_2", "item_3", "item_4", "item_5", "item_6" >>

\* metadata.get('item_id', f"item_{tryon.id}")
ItemIdOf(i) ==
    IF tryons[i].md.item_id # None THEN tryons[i].md.item_id ELSE RecordItemIds[i]

\* metadata.get('category', 'unknown') / metadata.get('style', 'unknown')
OrUnknown(v) == IF v = None THEN "unknown" ELSE v

\* ------------------------------------------------------------ dict helpers
\* A Python dict is the sequence of its << key, value >> pairs in insertion order.
HasKey(d, k) == \E i \in 1..Len(d) : d[i][1] = k
Get(d, k, default) ==
    IF HasKey(d, k) THEN d[CHOOSE i \in 1..Len(d) : d[i][1] = k][2] ELSE default
Put(d, k, v) ==
    IF HasKey(d, k)
    THEN [ i \in 1..Len(d) |-> IF d[i][1] = k THEN << k, v >> ELSE d[i] ]
    ELSE Append(d, << k, v >>)
\* d[k] += v on a defaultdict(float)
AddTo(d, k, v) == Put(d, k, Get(d, k, 0) + v)

Reverse(s) == [ i \in 1..Len(s) |-> s[Len(s) + 1 - i] ]

\* sorted(pairs, key=lambda x: x[1], reverse=True) : stable
RECURSIVE InsertDesc(_, _)
InsertDesc(sorted, x) ==
    IF sorted = <<>> THEN << x >>
    ELSE IF Head(sorted)[2] >= x[2]
         THEN << Head(sorted) >> \o InsertDesc(Tail(sorted), x)
         ELSE << x >> \o sorted

RECURSIVE SortDesc(_)
SortDesc(pairs) ==
    IF pairs = <<>> THEN <<>>
    ELSE InsertDesc(SortDesc(SubSeq(pairs, 1, Len(pairs) - 1)), pairs[Len(pairs)])

\* ---------------------------------------------------------------- queries
\* ids of the rows of tryon_history, in id order, that satisfy a filter
RowsOfUser(u) == SelectSeq([ i \in 1..Len(tryons) |-> i ], LAMBDA i : tryons[i].user_id = u)
Since(ids, days) == SelectSeq(ids, LAMBDA i : tryons[i].created_at >= now - days)
AllRows == [ i \in 1..Len(tryons) |-> i ]

\* ------------------------------------------------------------ mock catalog
Item(id, cat, color, brand) ==
    [ item_id |-> id, category |-> cat, color |-> color, brand |-> brand, style |-> None ]

\* _find_similar_items : mock_items
MockItems ==
    << Item("item_001", "top", "white", "Nike"),
       Item("item_002", "bottom", "blue", "Levi's"),
       Item("item_003", "outerwear", "black", "Zara"),
       Item("item_004", "dress", "floral", "H&M"),
       Item("item_005", "shoes", "white", "Adidas") >>

\* _find_items_by_categories : mock_items
MockCategoryItems ==
    << Item("item_006", "outerwear", "gray", "Gap"),
       Item("item_007", "bottom", "khaki", "Uniqlo"),
       Item("item_008", "top", "navy", "Ralph Lauren") >>

\* _get_item_details : mock_database
MockDatabase == << Item("item_001", "top", None, "Nike"),
                   Item("item_002", "bottom", None, "Levi's") >>

\* a lookup that answers for every id, with empty fields for an unknown one
_get_item_details_or_blank(item_id) ==
    IF \E i \in 1..Len(MockDatabase) : MockDatabase[i].item_id = item_id
    THEN SelectSeq(MockDatabase, LAMBDA it : it.item_id = item_id)
    ELSE << Item(item_id, None, None, None) >>

_get_item_details(item_id) ==
    SelectSeq(MockDatabase, LAMBDA it : it.item_id = item_id)

\* _generate_reason : reasons
Reasons == << "Based on your recent try-ons", "Similar to your favorites",
             "Complements your wardrobe", "Trending this week",
             "Popular with similar users" >>

\* hash(item_id) % len(reasons) of the ids the mock database resolves: str
\* hashes are salted per process, so any function is possible
HashSeeds == [ { MockDatabase[i].item_id : i \in 1..Len(MockDatabase) }
               -> 0..(Len(Reasons) - 1) ]

\* the function of the process the other specifications run in
StartSeed == [ id \in { MockDatabase[i].item_id : i \in 1..Len(MockDatabase) } |->
                 IF id = "item_001" THEN 0 ELSE 3 ]

\* reasons[hash(item_id) % len(reasons)] ; user_id is not used
\* hash(item_id) % len(reasons) ; only ids of the mock database get this far
HashMod(item_id) == IF item_id \in DOMAIN hashseed THEN hashseed[item_id] ELSE 0

_generate_reason(user_id, item_id) == Reasons[HashMod(item_id) + 1]

_find_similar_items(categories, colors, styles, brands, category_filter) ==
    SelectSeq(MockItems, LAMBDA item :
        /\ ~(category_filter # None /\ item.category # category_filter)
        /\ \/ item.category \in categories
           \/ item.color \in colors
           \/ item.style \in styles
           \/ item.brand \in brands)

\* the category_filter argument is not used
_find_items_by_categories(categories, category_filter) ==
    SelectSeq(MockCategoryItems, LAMBDA item : item.category \in categories)

\* [ << item.item_id, Score(item) >> for item in items if Score(item) > 0 ]
ScoreItems(items, Score(_)) ==
    LET scored == SelectSeq(items, LAMBDA item : Score(item) > 0)
    IN [ j \in 1..Len(scored) |-> << scored[j].item_id, Score(scored[j]) >> ]

\* -------------------------------------------- _content_based_recommendations
\* the strategy with the weights of category and color exchanged
_content_based_recommendations_color_first(user_id, category) ==
    LET recent == Take(Reverse(Since(RowsOfUser(user_id), ContentDays)), ContentLimit)
        n      == Len(recent)
        Md(j)  == tryons[recent[j]].md
        categories == { OrUnknown(Md(j).category) : j \in 1..n }
        colors == { Md(j).color : j \in 1..n } \ { None }
        styles == { Md(j).style : j \in 1..n } \ { None }
        brands == { Md(j).brand : j \in 1..n } \ { None }
        NCat(c)   == Cardinality({ j \in 1..n : OrUnknown(Md(j).category) = c })
        NColor(c) == Cardinality({ j \in 1..n : c # None /\ Md(j).color = c })
        NStyle(c) == Cardinality({ j \in 1..n : c # None /\ Md(j).style = c })
        NBrand(c) == Cardinality({ j \in 1..n : c # None /\ Md(j).brand = c })
        Score(item) == (  300 * NCat(item.category) + 400 * NColor(item.color)
                        + 200 * NStyle(item.style) + 100 * NBrand(item.brand) ) \div n
    IN IF n = 0 THEN <<>>
       ELSE ScoreItems(_find_similar_items(categories, colors, styles, brands, category), Score)

_content_based_recommendations(user_id, category) ==
    LET recent == Take(Reverse(Since(RowsOfUser(user_id), ContentDays)), ContentLimit)
        n      == Len(recent)
        Md(j)  == tryons[recent[j]].md
        categories == { OrUnknown(Md(j).category) : j \in 1..n }
        colors == { Md(j).color : j \in 1..n } \ { None }
        styles == { Md(j).style : j \in 1..n } \ { None }
        brands == { Md(j).brand : j \in 1..n } \ { None }
        \* a Counter holds no key for a value that is missing or None
        NCat(c)   == Cardinality({ j \in 1..n : OrUnknown(Md(j).category) = c })
        NColor(c) == Cardinality({ j \in 1..n : c # None /\ Md(j).color = c })
        NStyle(c) == Cardinality({ j \in 1..n : c # None /\ Md(j).style = c })
        NBrand(c) == Cardinality({ j \in 1..n : c # None /\ Md(j).brand = c })
        Score(item) == (  400 * NCat(item.category) + 300 * NColor(item.color)
                        + 200 * NStyle(item.style) + 100 * NBrand(item.brand) ) \div n
    IN IF n = 0 THEN <<>>
       ELSE ScoreItems(_find_similar_items(categories, colors, styles, brands, category), Score)

\* ------------------------------------------- _favorite_based_recommendations
FavoritesOf(user_id) == { i \in favorites : tryons[i].user_id = user_id }

_favorite_based_recommendations(user_id, category) ==
    LET favs       == FavoritesOf(user_id)
        categories == { tryons[i].md.category : i \in favs } \ { None }
        colors     == { tryons[i].md.color : i \in favs } \ { None }
        styles     == { tryons[i].md.style : i \in favs } \ { None }
        Score(item) == (IF item.category \in categories THEN 500 ELSE 0)
                     + (IF item.color \in colors THEN 300 ELSE 0)
                     + (IF item.style \in styles THEN 200 ELSE 0)
    IN IF favs = {} THEN <<>>
       ELSE ScoreItems(_find_similar_items(categories, colors, styles, {}, category), Score)

\* ------------------------------------------- _wardrobe_based_recommendations
ComplementaryMap(cat) ==
    CASE cat = "top"       -> { "bottom", "outerwear", "dress" }
      [] cat = "bottom"    -> { "top", "shoes", "outerwear" }
      [] cat = "dress"     -> { "shoes", "outerwear", "accessories" }
      [] cat = "outerwear" -> { "top", "bottom" }
      [] cat = "shoes"     -> { "top", "bottom", "dress" }
      [] OTHER             -> {}

_wardrobe_based_recommendations(user_id, category) ==
    LET wardrobe_categories == { w[2] : w \in { x \in wardrobe : x[1] = user_id } }
        complementary == UNION { ComplementaryMap(c) : c \in wardrobe_categories }
        items == _find_items_by_categories(complementary, category)
    IN IF wardrobe_categories = {} THEN <<>>
       ELSE [ j \in 1..Len(items) |-> << items[j].item_id, 700 >> ]

\* ------------------------------------- _find_similar_users / _calculate_similarity
\* user_cat.get(key, 0) + user_style.get(key, 0) over the first ProfileLimit rows
PrefCount(ids, key) ==
      Cardinality({ j \in 1..Len(ids) : OrUnknown(tryons[ids[j]].md.category) = key })
    + Cardinality({ j \in 1..Len(ids) : OrUnknown(tryons[ids[j]].md.style) = key })

PrefKeys(ids) == { OrUnknown(tryons[ids[j]].md.category) : j \in 1..Len(ids) }
                 \cup { OrUnknown(tryons[ids[j]].md.style) : j \in 1..Len(ids) }

RECURSIVE SumFn(_, _)
SumFn(f, S) ==
    IF S = {} THEN 0
    ELSE LET x == CHOOSE y \in S : TRUE IN f[x] + SumFn(f, S \ {x})

\* dot product and squared magnitudes of the two preference vectors
_calculate_similarity(mine, theirs) ==
    LET all_keys == PrefKeys(mine) \cup PrefKeys(theirs)
        dot  == SumFn([ k \in all_keys |-> PrefCount(mine, k) * PrefCount(theirs, k) ], all_keys)
        mag1 == SumFn([ k \in all_keys |-> PrefCount(mine, k) * PrefCount(mine, k) ], all_keys)
        mag2 == SumFn([ k \in all_keys |-> PrefCount(theirs, k) * PrefCount(theirs, k) ], all_keys)
    IN [ dot |-> dot, mag1 |-> mag1, mag2 |-> mag2,
         \* dot / (mag1 ** 0.5 * mag2 ** 0.5), scaled by Scale
         value |-> IF all_keys = {} \/ mag1 = 0 \/ mag2 = 0 THEN 0
                   ELSE ISqrt((Scale * Scale * dot * dot) \div (mag1 * mag2)) ]

\* similarity > 0.3, decided on the exact ratio
AboveThreshold(sim) ==
    sim.mag1 > 0 /\ sim.mag2 > 0 /\ 100 * sim.dot * sim.dot > 9 * sim.mag1 * sim.mag2

\* the other users in the order the DISTINCT query yields them
RECURSIVE SetToSeq(_)
SetToSeq(S) ==
    IF S = {} THEN <<>>
    ELSE LET x == CHOOSE y \in S : \A z \in S : y <= z IN << x >> \o SetToSeq(S \ {x})

_find_similar_users(user_id, limit) ==
    LET user_tryons == Take(RowsOfUser(user_id), ProfileLimit)
        all_users   == SetToSeq({ tryons[i].user_id : i \in 1..Len(tryons) } \ { user_id })
        Sim(other)  == _calculate_similarity(user_tryons, Take(RowsOfUser(other), ProfileLimit))
        similar     == SelectSeq(Take(all_users, ProfileLimit), LAMBDA o : AboveThreshold(Sim(o)))
        similarities == [ j \in 1..Len(similar) |-> << similar[j], Sim(similar[j]).value >> ]
    IN IF user_tryons = <<>> THEN <<>>
       ELSE Take(SortDesc(similarities), limit)

\* ---------------------------------------------------- _collaborative_filtering
\* scores[item_id] += base_score * similarity_score over one user's try-ons
RECURSIVE ScoreTheirTryons(_, _, _)
ScoreTheirTryons(scores, ids, similarity) ==
    IF ids = <<>> THEN scores
    ELSE LET base_score == IF Head(ids) \in favorites THEN 800 ELSE 500
         IN ScoreTheirTryons(AddTo(scores, ItemIdOf(Head(ids)), (base_score * similarity) \div Scale),
                             Tail(ids), similarity)

RECURSIVE ScoreSimilarUsers(_, _)
ScoreSimilarUsers(scores, similar_users) ==
    IF similar_users = <<>> THEN scores
    ELSE LET their_tryons == Take(Since(RowsOfUser(Head(similar_users)[1]), CollabDays), CollabLimit)
         IN ScoreSimilarUsers(ScoreTheirTryons(scores, their_tryons, Head(similar_users)[2]),
                              Tail(similar_users))

\* a cold start that takes every other user for a similar one
_collaborative_filtering_cold_start(user_id, category) ==
    LET others == SetToSeq({ tryons[i].user_id : i \in 1..Len(tryons) } \ { user_id })
    IN ScoreSimilarUsers(<<>>, IF RowsOfUser(user_id) = <<>>
                               THEN [ j \in 1..Len(others) |-> << others[j], Scale >> ]
                               ELSE _find_similar_users(user_id, SimilarUsers))

\* the category argument is not used
_collaborative_filtering(user_id, category) ==
    ScoreSimilarUsers(<<>>, _find_similar_users(user_id, SimilarUsers))

\* ------------------------------------------------------------ _trending_items
RECURSIVE CountItems(_, _, _)
CountItems(counts, ids, category) ==
    IF ids = <<>> THEN counts
    ELSE CountItems(IF category = None \/ tryons[Head(ids)].md.category = category
                    THEN AddTo(counts, ItemIdOf(Head(ids)), 1) ELSE counts,
                    Tail(ids), category)

MaxValue(d) == CHOOSE m \in { d[i][2] : i \in 1..Len(d) } : \A i \in 1..Len(d) : d[i][2] <= m

\* a normalization by the number of try-ons instead of the highest count
_trending_items_share(category) ==
    LET item_counts == CountItems(<<>>, Since(AllRows, TrendingDays), category)
        total       == IF item_counts = <<>> THEN 1
                       ELSE SumFn([ j \in 1..Len(item_counts) |-> item_counts[j][2] ],
                                  1..Len(item_counts))
    IN [ j \in 1..Len(item_counts) |->
           << item_counts[j][1], (Scale * item_counts[j][2]) \div total >> ]

\* the counts themselves, without the division by the highest count
_trending_items_counts(category) ==
    LET item_counts == CountItems(<<>>, Since(AllRows, TrendingDays), category)
    IN [ j \in 1..Len(item_counts) |-> << item_counts[j][1], Scale * item_counts[j][2] >> ]

_trending_items(category) ==
    LET item_counts == CountItems(<<>>, Since(AllRows, TrendingDays), category)
        max_count   == IF item_counts = <<>> THEN 1 ELSE MaxValue(item_counts)
    IN [ j \in 1..Len(item_counts) |->
           << item_counts[j][1], (Scale * item_counts[j][2]) \div max_count >> ]

\* ------------------------ VisualRecommendationService.get_similar_items_by_image
\* extract_features(image_path) is the feature vector of the image
get_similar_items_by_image(e, image, k, category_filter) ==
    LET similar  == search(e, image, k * 2)
        filtered == IF category_filter # None
                    THEN SelectSeq(similar, LAMBDA it : it.category = category_filter)
                    ELSE similar
    IN Take(filtered, k)

\* ------------------------------------------ _visual_similarity_recommendations
\* a similarity (an inner product of two vectors of norm UnitNorm) scaled by Scale
Similarity(dot) == (Scale * dot) \div (UnitNorm * UnitNorm)

RECURSIVE MergeSimilar(_, _)
MergeSimilar(all_similar, items) ==
    IF items = <<>> THEN all_similar
    ELSE LET item_id    == Head(items).item_id
             similarity == Similarity(Head(items).similarity_score)
         IN MergeSimilar(IF ~HasKey(all_similar, item_id)
                         THEN Put(all_similar, item_id, similarity)
                         ELSE Put(all_similar, item_id,
                                  (Get(all_similar, item_id, 0) + similarity) \div 2),
                         Tail(items))

RECURSIVE CollectSimilar(_, _, _)
CollectSimilar(all_similar, ids, category) ==
    IF ids = <<>> THEN all_similar
    ELSE LET image == tryons[Head(ids)].md.image
         IN CollectSimilar(IF image # <<>>
                           THEN MergeSimilar(all_similar,
                                    get_similar_items_by_image(Eng, image[1], VisualK, category))
                           ELSE all_similar,
                           Tail(ids), category)

\* failed : something inside the try block raised; `except Exception` logs it
_visual_similarity_recommendations(user_id, category, failed) ==
    LET recent_tryons == Take(Reverse(Since(RowsOfUser(user_id), VisualDays)), VisualLimit)
        all_similar   == CollectSimilar(<<>>, recent_tryons, category)
        max_score     == MaxValue(all_similar)
    IN IF failed \/ recent_tryons = <<>> \/ all_similar = <<>> THEN <<>>
       ELSE [ j \in 1..Len(all_similar) |->
                << all_similar[j][1],
                   IF max_score > 0 THEN (Scale * all_similar[j][2]) \div max_score ELSE 0 >> ]

\* ------------------------------------------------------------ _get_tried_items
_get_tried_items_recent(user_id) ==
    LET ids == Since(RowsOfUser(user_id), ContentDays)
    IN { ItemIdOf(ids[j]) : j \in 1..Len(ids) }

_get_tried_items(user_id) ==
    LET ids == RowsOfUser(user_id)
    IN { ItemIdOf(ids[j]) : j \in 1..Len(ids) }

\* ---------------------------------------------------------- get_recommendations
\* for item_id, score in strategy.items(): scores[item_id] += score * weight
RECURSIVE Blend(_, _, _)
Blend(scores, strategy, weight) ==
    IF strategy = <<>> THEN scores
    ELSE Blend(AddTo(scores, Head(strategy)[1], Head(strategy)[2] * weight), Tail(strategy), weight)

\* round(score, 3)
Round3(score) == (score + WeightScale \div 2) \div WeightScale

\* sorted_items[:limit]
SliceTo(s, limit) == IF limit >= 0 THEN Take(s, limit) ELSE Take(s, Len(s) + limit)

Strategies == { "content", "favorites", "wardrobe", "collaborative", "trending", "visual" }

\* sorted(scores.items(), key=lambda x: x[1]) : ascending
RankAscending(scores) == Reverse(SortDesc(scores))

Rank(scores) == SortDesc(scores)

\* lines 103-135 : the scores the six strategies add up to
\* fault : the strategy that raises an unexpected error during the call, or None
CollectScores(user_id, category, fault) ==
    LET s1 == Blend(<<>>, _content_based_recommendations(user_id, category), Weight("try_on_history"))
        s2 == Blend(s1, _favorite_based_recommendations(user_id, category), Weight("favorites"))
        s3 == Blend(s2, _wardrobe_based_recommendations(user_id, category), Weight("wardrobe"))
        s4 == Blend(s3, _collaborative_filtering(user_id, category), Weight("similar_users"))
        s5 == Blend(s4, _trending_items(category), Weight("trending"))
    IN IF self.use_visual_similarity
       THEN Blend(s5, _visual_similarity_recommendations(user_id, category, fault = "visual"),
                  Weight("visual_similarity"))
       ELSE s5

\* lines 137-158 : filter, sort, cut and look up the details
TopItems(all_scores, user_id, limit, exclude_tried) ==
    LET tried_items == _get_tried_items(user_id)
        scores == IF exclude_tried
                  THEN SelectSeq(all_scores, LAMBDA kv : kv[1] \notin tried_items)
                  ELSE all_scores
        top_items == SliceTo(Rank(scores), limit)
        found == SelectSeq(top_items, LAMBDA kv : _get_item_details(kv[1]) # <<>>)
    \* {**item_details, 'recommendation_score': ..., 'reason': ...} ; the name,
    \* price and image of an item are literals of the mock database
    IN [ j \in 1..Len(found) |->
           [ item_id  |-> _get_item_details(found[j][1])[1].item_id,
             category |-> _get_item_details(found[j][1])[1].category,
             brand    |-> _get_item_details(found[j][1])[1].brand,
             recommendation_score |-> Round3(found[j][2]),
             reason   |-> _generate_reason(user_id, found[j][1]) ] ]

get_recommendations(user_id, limit, category, exclude_tried, fault) ==
    IF fault \in Strategies \ { "visual" }
    THEN Raised("Exception")        \* only the visual strategy has a try block
    ELSE Returned(TopItems(CollectScores(user_id, category, fault),
                           user_id, limit, exclude_tried))

\* ------------------------------------------------------ get_user_style_profile
MostCommon == 5

\* a counter that only notes which values occur
RECURSIVE CountDistinct(_, _)
CountDistinct(counts, values) ==
    IF values = <<>> THEN counts
    ELSE CountDistinct(Put(counts, Head(values), 1), Tail(values))

\* Counter(values) : counts[v] += 1 for each value in turn
RECURSIVE CountSeq(_, _)
CountSeq(counts, values) ==
    IF values = <<>> THEN counts
    ELSE CountSeq(AddTo(counts, Head(values), 1), Tail(values))

\* Counter.most_common(n) : by count, descending, first counted first among equals
most_common(counts, n) == Take(SortDesc(counts), n)

RECURSIVE SumSeq(_)
SumSeq(values) == IF values = <<>> THEN 0 ELSE Head(values) + SumSeq(Tail(values))

MinSeq(values) == CHOOSE m \in Range(values) : \A v \in Range(values) : m <= v
MaxSeq(values) == CHOOSE m \in Range(values) : \A v \in Range(values) : m >= v

\* round(sum / len, 2) of prices held in cents
RoundDiv(total, n) == (2 * total + n) \div (2 * n)

get_user_style_profile(user_id) ==
    LET ids == RowsOfUser(user_id)
        Values(key) == [ j \in 1..Len(ids) |-> tryons[ids[j]].md[key] ]
        Present(key) == SelectSeq(Values(key), LAMBDA v : v # None)
        categories  == CountSeq(<<>>, [ j \in 1..Len(ids) |-> OrUnknown(Values("category")[j]) ])
        colors      == CountSeq(<<>>, Present("color"))
        brands      == CountSeq(<<>>, Present("brand"))
        styles      == CountSeq(<<>>, Present("style"))
        \* if metadata.get('price')
        price_range == SelectSeq(Values("price"), LAMBDA v : v # 0)
        avg_price   == IF price_range # <<>>
                       THEN RoundDiv(SumSeq(price_range), Len(price_range)) ELSE 0
    IN [ user_id |-> user_id,
         total_tryons |-> Len(ids),
         total_favorites |-> Cardinality(FavoritesOf(user_id)),
         favorite_categories |-> most_common(categories, MostCommon),
         favorite_colors |-> most_common(colors, MostCommon),
         favorite_brands |-> most_common(brands, MostCommon),
         favorite_styles |-> most_common(styles, MostCommon),
         average_price_preference |-> avg_price,
         price_range |-> [ min |-> IF price_range # <<>> THEN MinSeq(price_range) ELSE 0,
                           max |-> IF price_range # <<>> THEN MaxSeq(price_range) ELSE 0 ] ]

\* ---------------------------------------------------------------- actions
NoRec == [ called |-> FALSE, user_id |-> 0, limit |-> 0, category |-> None,
           exclude_tried |-> FALSE, fault |-> None, raised |-> None, value |-> <<>> ]

NoCall == [ op |-> "none", args |-> <<>>, returned |-> <<>> ]

RecInit ==
    /\ tryons = <<>>
    /\ favorites = {}
    /\ wardrobe = {}
    /\ now = 0
    /\ rec = NoRec
    /\ self = RecommendationEngine(TRUE)     \* get_recommendation_service(db)
    /\ interactions = <<>>
    /\ call = NoCall

\* a process that has just started: no service has been constructed
ProcInit ==
    /\ hashseed = StartSeed
    /\ services = <<>>
    /\ _visual_rec_service = <<>>

RecIdle == ~rec.called /\ call.op = "none"

\* complete_api.virtual_try_on : a row is added to tryon_history
TryOn ==
    /\ RecIdle
    /\ Len(tryons) < MaxTryons
    /\ \E u \in Users : \E md \in MdsOf(u) :
         tryons' = Append(tryons, [ user_id |-> u, created_at |-> now, md |-> md ])
    /\ UNCHANGED << favorites, wardrobe, now, rec >>
    /\ UNCHANGED << index, item_ids, metadata, disk, fresh, snap, last, th >>
    /\ UNCHANGED << self, proc, interactions, call >>

\* a user marks one of their try-ons as a favorite
AddFavorite ==
    /\ RecIdle
    /\ \E i \in (1..Len(tryons)) \ favorites : favorites' = favorites \cup { i }
    /\ UNCHANGED << tryons, wardrobe, now, rec >>
    /\ UNCHANGED << index, item_ids, metadata, disk, fresh, snap, last, th >>
    /\ UNCHANGED << self, proc, interactions, call >>

\* the requester adds a top to their wardrobe
AddWardrobeItem ==
    /\ RecIdle
    /\ << Requester, "top" >> \notin wardrobe
    /\ wardrobe' = wardrobe \cup { << Requester, "top" >> }
    /\ UNCHANGED << tryons, favorites, now, rec >>
    /\ UNCHANGED << index, item_ids, metadata, disk, fresh, snap, last, th >>
    /\ UNCHANGED << self, proc, interactions, call >>

Tick ==
    /\ RecIdle
    /\ now + TickDays <= MaxNow
    /\ now' = now + TickDays
    /\ UNCHANGED << tryons, favorites, wardrobe, rec >>
    /\ UNCHANGED << index, item_ids, metadata, disk, fresh, snap, last, th >>
    /\ UNCHANGED << self, proc, interactions, call >>

\* the catalog the visual index is built from: one image per catalog item
VisualCatalog ==
    [ image_paths |-> << Image(TRUE, <<10, 0>>), Image(TRUE, <<8, 6>>) >>,
      item_ids |-> << "item_001", "item_002" >>,
      metadata |-> << "top", "bottom" >> ]

\* build_index_from_catalog(catalog, image_dir)
BuildIndexFromCatalog ==
    /\ RecIdle
    /\ item_ids = <<>>
    /\ LET features == extract_features_batch(VisualCatalog.image_paths, DefaultBatchSize)
       IN /\ features.raised = None
          /\ SetEngine(add_items(Eng, features.value, VisualCatalog.item_ids,
                                 VisualCatalog.metadata))
    /\ UNCHANGED << tryons, favorites, wardrobe, now, rec, self, proc, interactions, call >>
    /\ UNCHANGED << disk, fresh, snap, last, th >>

RecCall(user_id, limit, category, exclude_tried, fault, ret) ==
    rec' = [ called |-> TRUE, user_id |-> user_id, limit |-> limit, category |-> category,
             exclude_tried |-> exclude_tried, fault |-> fault,
             raised |-> ret.raised, value |-> ret.value ]

\* GET /api/v1/recommendations
GetRecommendations ==
    /\ RecIdle
    /\ \E category \in { None, "bottom" } :
         \* the strategies see neither limit nor exclude_tried
         LET all_scores == CollectScores(Requester, category, None)
         IN \E limit \in 1..MaxK, exclude_tried \in BOOLEAN :
              RecCall(Requester, limit, category, exclude_tried, None,
                      Returned(TopItems(all_scores, Requester, limit, exclude_tried)))
    /\ UNCHANGED << tryons, favorites, wardrobe, now >>
    /\ UNCHANGED << index, item_ids, metadata, disk, fresh, snap, last, th >>
    /\ UNCHANGED << self, proc, interactions, call >>

\* the same request while one strategy raises an unexpected error
GetRecommendationsFault ==
    /\ RecIdle
    /\ \E fault \in Strategies :
         RecCall(Requester, MaxK, None, FALSE, fault,
                 get_recommendations(Requester, MaxK, None, FALSE, fault))
    /\ UNCHANGED << tryons, favorites, wardrobe, now >>
    /\ UNCHANGED << index, item_ids, metadata, disk, fresh, snap, last, th >>
    /\ UNCHANGED << self, proc, interactions, call >>

RecReturn ==
    /\ rec.called
    /\ rec' = NoRec
    /\ UNCHANGED << tryons, favorites, wardrobe, now >>
    /\ UNCHANGED << index, item_ids, metadata, disk, fresh, snap, last, th >>
    /\ UNCHANGED << self, proc, interactions, call >>

\* one call of a method that only reads: what it returned is held until taken
Call(op, args, returned) == call' = [ op |-> op, args |-> args, returned |-> returned ]

\* GET /api/v1/recommendations/style-profile
GetUserStyleProfile ==
    /\ RecIdle
    /\ \E user_id \in Users :
         Call("get_user_style_profile", << user_id >>, get_user_style_profile(user_id))
    /\ UNCHANGED << index, item_ids, metadata, disk, fresh, snap, last, th >>
    /\ UNCHANGED << tryons, favorites, wardrobe, now, rec, self, proc, interactions >>

CallReturn ==
    /\ call.op # "none"
    /\ call' = NoCall
    /\ UNCHANGED << index, item_ids, metadata, disk, fresh, snap, last, th >>
    /\ UNCHANGED << tryons, favorites, wardrobe, now, rec, self, proc, interactions >>

\* ------------------------------------------- calls of the engine's strategies
MaxRows == 3        \* rows of tryon_history while the strategies are called alone

\* the users of these calls: the requester and two others
Shoppers == { 1, 2, 3 }

\* complete_api.virtual_try_on by any of the three users: the requester tries
\* anything, the second user the tee or an item without metadata, the third
\* user the tee
CreateTryon ==
    /\ RecIdle
    /\ Len(tryons) < MaxRows
    /\ \E u \in Shoppers :
         \E md \in (CASE u = Requester -> Mds
                      [] u = 2 -> { MdNone, MdTee }
                      [] OTHER -> { MdTee }) :
           tryons' = Append(tryons, [ user_id |-> u, created_at |-> now, md |-> md ])
    /\ UNCHANGED << favorites, wardrobe, now, rec >>
    /\ UNCHANGED << index, item_ids, metadata, disk, fresh, snap, last, th >>
    /\ UNCHANGED << self, proc, interactions, call >>

FindSimilarUsers ==
    /\ RecIdle
    /\ \E limit \in 1..MaxK :
         Call("_find_similar_users", << Requester, limit >>,
              _find_similar_users(Requester, limit))
    /\ UNCHANGED << index, item_ids, metadata, disk, fresh, snap, last, th >>
    /\ UNCHANGED << tryons, favorites, wardrobe, now, rec, self, proc, interactions >>

TrendingItems ==
    /\ RecIdle
    /\ \E category \in { None, "bottom" } :
         Call("_trending_items", << category >>, _trending_items(category))
    /\ UNCHANGED << index, item_ids, metadata, disk, fresh, snap, last, th >>
    /\ UNCHANGED << tryons, favorites, wardrobe, now, rec, self, proc, interactions >>

ContentBasedRecommendations ==
    /\ RecIdle
    /\ \E category \in { None, "top" } :
         Call("_content_based_recommendations", << Requester, category >>,
              _content_based_recommendations(Requester, category))
    /\ UNCHANGED << index, item_ids, metadata, disk, fresh, snap, last, th >>
    /\ UNCHANGED << tryons, favorites, wardrobe, now, rec, self, proc, interactions >>

\* get_recommendations, lines 103-135: the six strategies are run one after
\* the other, each giving its own map of raw scores, and their scores are
\* added up under their weights
RunStrategies ==
    /\ RecIdle
    /\ Call("strategies", << Requester, None >>,
            << _content_based_recommendations(Requester, None),
               _favorite_based_recommendations(Requester, None),
               _wardrobe_based_recommendations(Requester, None),
               _collaborative_filtering(Requester, None),
               _trending_items(None),
               _visual_similarity_recommendations(Requester, None, FALSE),
               CollectScores(Requester, None, None) >>)
    /\ UNCHANGED << index, item_ids, metadata, disk, fresh, snap, last, th >>
    /\ UNCHANGED << tryons, favorites, wardrobe, now, rec, self, proc, interactions >>

NextStrategies ==
    \/ CreateTryon \/ AddFavorite \/ BuildIndexFromCatalog
    \/ RunStrategies \/ CallReturn

NextProfile ==
    \/ CreateTryon \/ Tick
    \/ FindSimilarUsers \/ TrendingItems \/ ContentBasedRecommendations
    \/ GetUserStyleProfile \/ CallReturn

\* ------------------------------------------------- the service as a whole
MaxInteractions == 2    \* rows of recommendation_interactions

\* POST /api/v1/recommendations/interaction : a RecommendationInteraction row
\* is added and committed; the engine is not called
RecordInteraction ==
    /\ RecIdle
    /\ Len(interactions) < MaxInteractions
    /\ \E item_id \in { "item_001", "item_002" } :
         interactions' = Append(interactions,
             [ user_id |-> Requester, item_id |-> item_id, interaction_type |-> "try" ])
    /\ UNCHANGED << index, item_ids, metadata, disk, fresh, snap, last, th >>
    /\ UNCHANGED << tryons, favorites, wardrobe, now, rec, self, proc, call >>

\* ----------------------------------------- requests of one client over time
\* GET /api/v1/recommendations?limit=...&exclude_tried=... : the handler hands
\* limit to the engine as it came; the client keeps the response it got
Request ==
    /\ call.op = "none"
    /\ \E limit \in (-1)..MaxK, exclude_tried \in BOOLEAN :
         RecCall(Requester, limit, None, exclude_tried, None,
                 get_recommendations(Requester, limit, None, exclude_tried, None))
    /\ UNCHANGED << tryons, favorites, wardrobe, now >>
    /\ UNCHANGED << index, item_ids, metadata, disk, fresh, snap, last, th >>
    /\ UNCHANGED << self, proc, interactions, call >>

\* the server process ends and a new one starts: the tables stay, the salt of
\* the interpreter's str hash is drawn anew
Restart ==
    /\ call.op = "none"
    /\ \E seed \in HashSeeds \ { hashseed } : hashseed' = seed
    /\ UNCHANGED << services, _visual_rec_service >>
    /\ UNCHANGED << tryons, favorites, wardrobe, now, rec >>
    /\ UNCHANGED << index, item_ids, metadata, disk, fresh, snap, last, th >>
    /\ UNCHANGED << self, interactions, call >>

NextRequests == TryOn \/ Request \/ Restart \/ RecReturn

\* an engine built with either value of use_visual_similarity, on empty tables
InitEither ==
    /\ IndexInit /\ ConcInit
    /\ tryons = <<>> /\ favorites = {} /\ wardrobe = {} /\ now = 0
    /\ rec = NoRec
    /\ self \in { RecommendationEngine(enabled) : enabled \in BOOLEAN }
    /\ interactions = <<>>
    /\ call = NoCall
    /\ ProcInit

NextService ==
    \/ TryOn \/ RecordInteraction
    \/ GetRecommendations \/ RecReturn
    \/ GetUserStyleProfile \/ CallReturn

\* the operations of an engine that read its weights
NextWeights == TryOn \/ BuildIndexFromCatalog \/ GetRecommendations \/ RecReturn

\* ------------------------------------------------ a history of many colors
MaxColorRows == 7   \* rows of tryon_history of the requester

\* the colors of the mock catalogs
Palette == << "white", "blue", "black", "floral", "gray", "khaki" >>

\* complete_api.virtual_try_on by the requester: an item without category whose
\* color is a new one, the first one again, or missing
TryOnColored ==
    /\ RecIdle
    /\ Len(tryons) < MaxColorRows
    /\ \E color \in { Palette[Min(Len(tryons) + 1, Len(Palette))], Palette[1], None } :
         tryons' = Append(tryons, [ user_id |-> Requester, created_at |-> now,
                                    md |-> [ MdNone EXCEPT !.color = color ] ])
    /\ UNCHANGED << favorites, wardrobe, now, rec >>
    /\ UNCHANGED << index, item_ids, metadata, disk, fresh, snap, last, th >>
    /\ UNCHANGED << self, proc, interactions, call >>

NextStyle == TryOnColored \/ GetUserStyleProfile \/ CallReturn

\* ------------------------------------------------ calls of the feature extractor
MaxImages == 3      \* images of one extract_features_batch call

ExtractFeatures ==
    /\ call.op = "none"
    /\ \E image \in Images :
         Call("extract_features", << image >>, extract_features(image))
    /\ UNCHANGED << index, item_ids, metadata, disk, fresh, snap, last, th >>
    /\ UNCHANGED << tryons, favorites, wardrobe, now, rec, self, proc, interactions >>

ExtractFeaturesBatch ==
    /\ call.op = "none"
    /\ \E n \in 1..MaxImages, batch_size \in 1..MaxImages :
         \E images \in [1..n -> Images] :
            LET image_paths == SubSeq(images, 1, n)
            IN Call("extract_features_batch", << image_paths, batch_size >>,
                    extract_features_batch(image_paths, batch_size))
    /\ UNCHANGED << index, item_ids, metadata, disk, fresh, snap, last, th >>
    /\ UNCHANGED << tryons, favorites, wardrobe, now, rec, self, proc, interactions >>

NextExtract == ExtractFeaturesBatch \/ ExtractFeatures \/ CallReturn

NextRec ==
    \/ TryOn \/ AddFavorite \/ AddWardrobeItem \/ Tick \/ BuildIndexFromCatalog
    \/ GetRecommendations \/ GetRecommendationsFault \/ RecReturn
    \/ GetUserStyleProfile \/ CallReturn

vars == << index, item_ids, metadata, disk, fresh, snap, last, th,
          tryons, favorites, wardrobe, now, rec ,
          self, interactions, call, hashseed, services, _visual_rec_service >>

Init == IndexInit /\ ConcInit /\ RecInit /\ ProcInit

NextIndex == AddItems \/ AddItemToIndex \/ Search \/ GetSimilarItemsById \/ Return

NextUpload == NextIndex \/ AddUnreadableItemToIndex

NextPersist == AddItems \/ Save \/ LoadFresh \/ SearchFresh \/ Return

SpecIndex == Init /\ [][NextIndex]_vars

SpecCatalog == Init /\ [][NextCatalog]_vars

SpecLoad == Init /\ [][NextLoad]_vars

SpecPersist == Init /\ [][NextPersist]_vars

SpecConc == Init /\ [][NextConc]_vars

SpecSingleton == Init /\ [][NextSingleton]_vars

SpecProfile == Init /\ [][NextProfile]_vars

SpecStrategies == Init /\ [][NextStrategies]_vars

SpecStyle == Init /\ [][NextStyle]_vars

SpecService == Init /\ [][NextService]_vars

SpecWeights == InitEither /\ [][NextWeights]_vars

SpecRequests == Init /\ [][NextRequests]_vars

SpecRec == Init /\ [][NextRec]_vars

SpecUpload == Init /\ [][NextUpload]_vars

SpecExtract == Init /\ [][NextExtract]_vars


\* ======================================================================
\*                               Properties
\* ======================================================================
\* entry p of the index as a search for q should report it
RowAsHit(p, q) ==
    [ item_id          |-> item_ids[p],
      similarity_score |-> Dot(index[p], q),
      category         |-> metadata[item_ids[p]] ]

\* C1 - Index round-trip: a search on a fresh engine that load()ed what save()
\* wrote from state S returns the same ordered list of
\* (item_id, similarity_score, metadata) as the same search on S.
C1_RoundTrip ==
    last.op = "search_loaded" =>
        /\ last.raised = None
        /\ last.value = search(fresh[2], last.q, last.k)

\* the loaded engine answers a query over at least two saved entries, while
\* the engine that was saved has grown since
C1_Witness ==
    /\ last.op = "search_loaded"
    /\ Len(fresh[2].item_ids) >= 2
    /\ last.k <= Len(fresh[2].item_ids)
    /\ Len(last.value) >= 2
    /\ last.value[1].category # NoMeta
    /\ Len(item_ids) > Len(fresh[2].item_ids)
    /\ fresh[1].index # <<>>

\* C5 - Self-exclusion: get_similar_items_by_id(X, k) returns no entry whose
\* item_id is X, also when the index holds several entries with id X.
C5_SelfExclusion ==
    last.op = "get_similar_items_by_id" =>
        \A i \in 1..Len(last.value) : last.value[i].item_id # last.item_id

\* X is indexed twice, another item is indexed too and is returned
C5_Witness ==
    /\ last.op = "get_similar_items_by_id"
    /\ Cardinality({ i \in 1..Len(item_ids) : item_ids[i] = last.item_id }) >= 2
    /\ Len(last.value) >= 1

\* C9 - search(q, k) returns exactly min(k, number of entries) results in
\* non-increasing similarity order, each result being a distinct entry of the
\* index with its own similarity, and no entry left out is more similar to q
\* than a returned one; on an empty index it returns the empty list; the
\* index after the call is the index the call found.
C9_Search ==
    last.op = "search" =>
        LET res == last.value
            n   == Len(item_ids)
        IN /\ last.raised = None
           /\ last.pre = << Eng >>
           /\ Len(res) = Min(last.k, n)
           /\ n = 0 => res = <<>>
           /\ \A i \in 1..(Len(res) - 1) :
                  res[i].similarity_score >= res[i + 1].similarity_score
           \* every result is an entry of the index, no entry is returned twice
           /\ \A i \in 1..Len(res) :
                  Cardinality({ j \in 1..Len(res) : res[j] = res[i] })
                      <= Cardinality({ p \in 1..n : RowAsHit(p, last.q) = res[i] })
           \* every entry more similar than the last result is among the results
           /\ Len(res) > 0 =>
                  Cardinality({ p \in 1..n : Dot(index[p], last.q) > res[Len(res)].similarity_score })
                      = Cardinality({ j \in 1..Len(res) :
                                        res[j].similarity_score > res[Len(res)].similarity_score })


\* a search with k below the number of entries, so that entries are left out
C9_Witness ==
    /\ last.op = "search"
    /\ Len(item_ids) = 3
    /\ last.k = 2
    /\ Len(last.value) = 2
    /\ last.value[1].similarity_score > last.value[2].similarity_score

TriedItemIds(user_id) ==
    { IF tryons[i].md.item_id # None THEN tryons[i].md.item_id ELSE RecordItemIds[i] :
        i \in { j \in 1..Len(tryons) : tryons[j].user_id = user_id } }

ReturnedItemIds(value) == { value[j].item_id : j \in 1..Len(value) }

\* C2 - Exclusion correctness: get_recommendations(user, exclude_tried=True)
\* returns no item whose id is derived from a record of the user's full try-on
\* history (the record's item_id, or item_<record id> when it carries none),
\* whatever the limit and the category and whichever strategies scored it.
C2_ExclusionCorrectness ==
    (rec.called /\ rec.exclude_tried /\ rec.raised = None) =>
        ReturnedItemIds(rec.value) \cap TriedItemIds(rec.user_id) = {}

\* the user tried item_001 long ago, the other strategies still score it, and
\* the call with exclude_tried returns something else instead
C2_Witness ==
    /\ rec.called /\ rec.exclude_tried /\ rec.raised = None
    /\ \E i \in 1..Len(tryons) :
         /\ tryons[i].user_id = rec.user_id
         /\ tryons[i].created_at < now - ContentDays
         /\ tryons[i].md.item_id \in ReturnedItemIds(
                get_recommendations(rec.user_id, rec.limit, rec.category, FALSE, None).value)
    /\ rec.value # <<>>

\* C3 - Monotonic top-k: the results come in non-increasing
\* recommendation_score order, and over the same history and index state the
\* result for limit N is the first entries of the result for limit N + 1.
C3_MonotonicTopK ==
    (rec.called /\ rec.raised = None /\ rec.fault = None) =>
        /\ \A i, j \in 1..Len(rec.value) :
             i < j => rec.value[i].recommendation_score >= rec.value[j].recommendation_score
        /\ LET more == get_recommendations(rec.user_id, rec.limit + 1, rec.category,
                                           rec.exclude_tried, None).value
           IN /\ Len(rec.value) <= Len(more)
              /\ rec.value = Take(more, Len(rec.value))

\* a call with limit 1 that returns the better of two items with different scores
C3_Witness ==
    /\ rec.called /\ rec.raised = None /\ rec.fault = None
    /\ rec.limit = 1
    /\ Len(rec.value) = 1
    /\ LET more == get_recommendations(rec.user_id, 2, rec.category, rec.exclude_tried, None).value
       IN /\ Len(more) = 2
          /\ more[1].recommendation_score > more[2].recommendation_score
          /\ more[1] = rec.value[1]

\* C4 - Category filtering: when get_recommendations is called with a
\* category, every returned item belongs to that category, whichever strategy
\* put the item into the score table.
C4_CategoryFiltering ==
    (rec.called /\ rec.raised = None /\ rec.category # None) =>
        \A j \in 1..Len(rec.value) : rec.value[j].category = rec.category

\* C6 - Strategy fault isolation: when one of the six scoring strategies raises
\* an unexpected error during get_recommendations, the call still returns a
\* ranking instead of propagating the error.
C6_FaultIsolation ==
    (rec.called /\ rec.fault # None) => rec.raised = None

\* no try-on, favorite or wardrobe record of the user
EmptyHistory(user_id) ==
    /\ \A i \in 1..Len(tryons) : tryons[i].user_id # user_id
    /\ \A i \in favorites : tryons[i].user_id # user_id
    /\ \A w \in wardrobe : w[1] # user_id

\* C11 - Empty-history safety: for a user with no try-on, favorite or wardrobe
\* record, get_user_style_profile returns zero totals, empty count maps and
\* zero average, minimum and maximum price, and get_recommendations returns,
\* without raising, a list in which every item owes its whole score to the
\* trending strategy.
C11_EmptyHistorySafety ==
    /\ (call.op = "get_user_style_profile" /\ EmptyHistory(call.args[1])) =>
          call.returned = [ user_id |-> call.args[1], total_tryons |-> 0, total_favorites |-> 0,
                         favorite_categories |-> <<>>, favorite_colors |-> <<>>,
                         favorite_brands |-> <<>>, favorite_styles |-> <<>>,
                         average_price_preference |-> 0,
                         price_range |-> [ min |-> 0, max |-> 0 ] ]
    /\ (rec.called /\ rec.fault \in { None, "visual" } /\ EmptyHistory(rec.user_id)) =>
          /\ rec.raised = None
          /\ LET trending == _trending_items(rec.category)
             IN \A j \in 1..Len(rec.value) :
                  /\ HasKey(trending, rec.value[j].item_id)
                  /\ rec.value[j].recommendation_score
                       = Round3(Get(trending, rec.value[j].item_id, 0) * self.weights["trending"])

\* the user has no record, another user has tried an item this week, and the
\* call returns that item
C11_Witness ==
    /\ rec.called /\ rec.fault = None /\ EmptyHistory(rec.user_id)
    /\ tryons # <<>>
    /\ rec.value # <<>>

\* every entry held stays where it is, and a call that adds n entries makes the
\* index and item_ids n entries longer, whatever item_ids it adds
C12_AppendOnly ==
    /\ Len(index') >= Len(index) /\ SubSeq(index', 1, Len(index)) = index
    /\ Len(item_ids') >= Len(item_ids) /\ SubSeq(item_ids', 1, Len(item_ids)) = item_ids
    /\ (last'.op \in { "add_items", "add_item_to_index" } /\ last.op = "init") =>
          /\ Len(index') = Len(index) + last'.k
          /\ Len(item_ids') = Len(item_ids) + last'.k

C12_BothRetrievable ==
    (last.op = "search" /\ last.k >= Len(item_ids)) =>
        \A id \in IndexIds, v \in Vectors :
            Cardinality({ j \in 1..Len(last.value) :
                            /\ last.value[j].item_id = id
                            /\ last.value[j].similarity_score = Dot(v, last.q) })
          = Cardinality({ p \in 1..Len(item_ids) :
                            item_ids[p] = id /\ Dot(index[p], last.q) = Dot(v, last.q) })

\* C12 - Duplicate item_ids: after add_items has inserted two entries with the
\* same item_id, both stay in the index, and a search with k at least the
\* number of entries returns, for every item_id and every similarity, as many
\* results as there are entries with that item_id and that similarity: one
\* result per inserted vector, each with the similarity of its own vector.
C12_DuplicateItemIds == []C12_BothRetrievable /\ [][C12_AppendOnly]_vars

\* two entries with one item_id and different vectors, both returned
C12_Witness ==
    /\ last.op = "search" /\ last.k = 2
    /\ Len(item_ids) = 2 /\ item_ids[1] = item_ids[2] /\ index[1] # index[2]
    /\ Len(last.value) = 2
    /\ last.value[1].item_id = last.value[2].item_id
    /\ last.value[1].similarity_score > last.value[2].similarity_score

\* C13 - Stored-vector normalization: every vector the Similarity Index holds
\* has unit L2 norm, after any sequence of add_item_to_index and add_items
\* calls and for any input images.
C13_StoredVectorsUnitNorm ==
    \A p \in 1..Len(index) : Dot(index[p], index[p]) = UnitNorm * UnitNorm

\* C14 - Batch/single equivalence: for every list of images and every batch
\* size, extract_features_batch returns one row per image, in input order,
\* row i equals extract_features of image i, and an image that fails to load
\* yields the zero vector in its row.
C14_BatchSingleEquivalence ==
    call.op = "extract_features_batch" =>
        LET image_paths == call.args[1]
        IN /\ call.returned.raised = None
           /\ Len(call.returned.value) = Len(image_paths)
           /\ \A i \in 1..Len(image_paths) :
                /\ call.returned.value[i] = extract_features(image_paths[i])
                /\ ~image_paths[i].loads => call.returned.value[i] = Zeros

\* the category and style values a user's rows carry (a row that lacks one
\* carries none)
CarriedValues(ids) ==
    (   { tryons[ids[j]].md.category : j \in 1..Len(ids) }
     \cup { tryons[ids[j]].md.style : j \in 1..Len(ids) } ) \ { None }

\* C15: _find_similar_users returns, sorted by non-increasing similarity and
\* cut to limit, exactly the other users whose cosine similarity to the target
\* is above 0.3, never the target; a user whose distribution is identical to
\* the target's has similarity 1.0 and is returned; a user whose categories
\* and styles are all disjoint from the target's has similarity 0.0 and is
\* not returned
C15_SimilarUsers ==
    call.op = "_find_similar_users" =>
        LET user_id == call.args[1]
            limit   == call.args[2]
            similar == call.returned
            mine    == RowsOfUser(user_id)
            others  == { tryons[i].user_id : i \in 1..Len(tryons) } \ { user_id }
            Sim(o)  == _calculate_similarity(mine, RowsOfUser(o))
            above   == { o \in others : mine # <<>> /\ AboveThreshold(Sim(o)) }
            IsReturned(o) == \E j \in 1..Len(similar) : similar[j][1] = o
            keys    == PrefKeys(mine)
        IN /\ \A j \in 1..Len(similar) - 1 : similar[j][2] >= similar[j + 1][2]
           /\ Len(similar) = Min(limit, Cardinality(above))
           /\ \A j \in 1..Len(similar) :
                /\ similar[j][1] \in above
                /\ similar[j][2] = Sim(similar[j][1]).value
                /\ \A l \in 1..Len(similar) : similar[l][1] = similar[j][1] => l = j
           /\ \A o \in above : ~IsReturned(o) =>
                \A j \in 1..Len(similar) : similar[j][2] >= Sim(o).value
           /\ \A o \in others :
                (/\ mine # <<>>
                 /\ PrefKeys(RowsOfUser(o)) = keys
                 /\ \A k \in keys : PrefCount(RowsOfUser(o), k) = PrefCount(mine, k))
                => Sim(o).value = Scale /\ (Len(similar) < limit => IsReturned(o))
           /\ \A o \in others :
                (/\ CarriedValues(mine) # {}
                 /\ CarriedValues(RowsOfUser(o)) # {}
                 /\ CarriedValues(mine) \cap CarriedValues(RowsOfUser(o)) = {})
                => Sim(o).value = 0 /\ ~IsReturned(o)

\* C16: _trending_items gives every item tried in the last 7 days (and of the
\* category asked for, when one is given) the score count / max_count: the
\* most-tried item scores exactly 1, an item with half that count exactly
\* 0.5, and every score lies in (0, 1]
C16_TrendingNormalized ==
    call.op = "_trending_items" =>
        LET category == call.args[1]
            scores   == call.returned
            counted  == { i \in 1..Len(tryons) :
                            /\ tryons[i].created_at >= now - TrendingDays
                            /\ category # None => tryons[i].md.category = category }
            Count(id) == Cardinality({ i \in counted : ItemIdOf(i) = id })
            top      == CHOOSE c \in { Count(ItemIdOf(i)) : i \in counted } :
                            \A i \in counted : Count(ItemIdOf(i)) <= c
        IN /\ { scores[j][1] : j \in 1..Len(scores) } = { ItemIdOf(i) : i \in counted }
           /\ \A j, l \in 1..Len(scores) : scores[j][1] = scores[l][1] => j = l
           /\ \A j \in 1..Len(scores) :
                LET count == Count(scores[j][1])
                    score == scores[j][2]
                IN /\ score = (Scale * count) \div top
                   /\ 0 < score /\ score <= Scale
                   /\ count = top => score = Scale
                   /\ 2 * count = top => 2 * score = Scale

\* two items were tried in the last 7 days, one twice as often as the other
C16_Witness ==
    /\ call.op = "_trending_items"
    /\ \E j, l \in 1..Len(call.returned) :
         call.returned[j][2] = Scale /\ 2 * call.returned[l][2] = Scale

\* C17: a candidate's content-based score is 0.4 * (category matches) +
\* 0.3 * (color matches) + 0.2 * (style matches) + 0.1 * (brand matches), each
\* divided by the number of records considered; for a user whose recent
\* records all share one category and one color, a candidate of that category
\* and color scores strictly higher than a candidate that matches nothing
C17_ContentBasedOrdering ==
    call.op = "_content_based_recommendations" =>
        LET user_id  == call.args[1]
            category == call.args[2]
            scores   == call.returned
            records  == { i \in 1..Len(tryons) :
                            /\ tryons[i].user_id = user_id
                            /\ tryons[i].created_at >= now - ContentDays }
            n        == Cardinality(records)
            Matches(key, v) == Cardinality({ i \in records : tryons[i].md[key] = v })
            Expected(item) ==
                (  400 * Cardinality({ i \in records :
                                         OrUnknown(tryons[i].md.category) = item.category })
                 + 300 * (IF item.color = None THEN 0 ELSE Matches("color", item.color))
                 + 200 * (IF item.style = None THEN 0 ELSE Matches("style", item.style))
                 + 100 * (IF item.brand = None THEN 0 ELSE Matches("brand", item.brand)) )
                \div n
            Candidates == { m \in 1..Len(MockItems) :
                              category # None => MockItems[m].category = category }
            ScoreOf(m) == Get(scores, MockItems[m].item_id, 0)
        IN /\ n = 0 => scores = <<>>
           /\ n > 0 =>
                /\ \A j \in 1..Len(scores) :
                     \E m \in Candidates : /\ MockItems[m].item_id = scores[j][1]
                                            /\ scores[j][2] = Expected(MockItems[m])
                                            /\ scores[j][2] > 0
                /\ \A m \in Candidates : ScoreOf(m) = Expected(MockItems[m])
                /\ \A cat \in { tryons[i].md.category : i \in records } \ { None } :
                   \A col \in { tryons[i].md.color : i \in records } \ { None } :
                     (\A i \in records : tryons[i].md.category = cat /\ tryons[i].md.color = col)
                     => \A good, bad \in Candidates :
                          (/\ MockItems[good].category = cat
                           /\ MockItems[good].color = col
                           /\ Expected(MockItems[bad]) = 0)
                          => ScoreOf(good) > ScoreOf(bad)

\* the requester tried only white tops: the white Nike top scores 0.8, the
\* white sneakers 0.3, and the jeans, which match nothing, have no score
C17_Witness ==
    /\ call.op = "_content_based_recommendations"
    /\ call.args[2] = None
    /\ Len(RowsOfUser(Requester)) >= 2
    /\ \A i \in 1..Len(tryons) : tryons[i].user_id = Requester => tryons[i].md = MdTee
    /\ Get(call.returned, "item_001", 0) = 800
    /\ Get(call.returned, "item_005", 0) = 300
    /\ ~HasKey(call.returned, "item_002")

\* the weights sum to 1.0: six of them with visual similarity, five without
C18_WeightsSumToOne ==
    /\ SumFn(self.weights, DOMAIN self.weights) = WeightScale
    /\ "visual_similarity" \in DOMAIN self.weights <=> self.use_visual_similarity
    /\ Cardinality(DOMAIN self.weights) = IF self.use_visual_similarity THEN 6 ELSE 5

\* C18: the strategy weights of an engine sum to exactly 1.0 both with visual
\* similarity enabled (six weights) and disabled (five weights, no visual
\* entry), and no operation of the engine changes the weight table
C18_WeightNormalization == []C18_WeightsSumToOne /\ [][self' = self]_vars

\* recommendations were computed by an engine built without visual similarity
C18_Witness ==
    /\ ~self.use_visual_similarity
    /\ rec.called /\ rec.raised = None /\ rec.value # <<>>

\* C19: recording an interaction appends one record for (user, item, kind) to
\* the history the engine reads, so that the next get_recommendations or
\* get_user_style_profile call for that user is computed over a history that
\* includes the record: every recorded interaction is a row of tryon_history
C19_RecordedInteractionIsRead ==
    \A k \in 1..Len(interactions) :
        \E i \in 1..Len(tryons) :
            /\ tryons[i].user_id = interactions[k].user_id
            /\ ItemIdOf(i) = interactions[k].item_id

\* the sum of the counts of one table of the profile
SumOfCounts(table) == SumFn([ j \in 1..Len(table) |-> table[j][2] ], 1..Len(table))

\* the user's records that carry the attribute
Carrying(user_id, key) ==
    { i \in 1..Len(tryons) : tryons[i].user_id = user_id /\ tryons[i].md[key] # None }

C21_UnresolvedDropped ==
    (rec.called /\ rec.raised = None) =>
        \A j \in 1..Len(rec.value) :
            LET entry == rec.value[j]
            IN /\ \E m \in 1..Len(MockDatabase) :
                    /\ MockDatabase[m].item_id = entry.item_id
                    /\ MockDatabase[m].category = entry.category
                    /\ MockDatabase[m].brand = entry.brand
               /\ entry.item_id # None /\ entry.category # None /\ entry.brand # None
               /\ entry.recommendation_score \in Nat
               /\ entry.reason \in Range(Reasons)

\* the best-scored item of the call is one the mock database does not know:
\* it is missing from the list, which holds a resolved item
C21_Witness ==
    /\ rec.called /\ rec.raised = None /\ rec.fault = None
    /\ rec.value # <<>>
    /\ LET all_scores == CollectScores(rec.user_id, rec.category, None)
           tried_items == _get_tried_items(rec.user_id)
           scores == IF rec.exclude_tried
                     THEN SelectSeq(all_scores, LAMBDA kv : kv[1] \notin tried_items)
                     ELSE all_scores
           top_items == SliceTo(Rank(scores), rec.limit)
       IN \E t \in 1..Len(top_items) :
            /\ _get_item_details(top_items[t][1]) = <<>>
            /\ top_items[t][2] > 0
            /\ \A j \in 1..Len(rec.value) : rec.value[j].item_id # top_items[t][1]

\* C22: the reason attached to a recommended item is one of the fixed reason
\* strings and depends on the item_id alone: two get_recommendations calls
\* that return the same item_id, at any time, attach the same reason to it
C22_ReasonDeterminism ==
    [][ (rec.called /\ rec'.called) =>
          \A i \in 1..Len(rec.value), j \in 1..Len(rec'.value) :
              /\ rec'.value[j].reason \in Range(Reasons)
              /\ rec.value[i].item_id = rec'.value[j].item_id
                    => rec.value[i].reason = rec'.value[j].reason ]_vars

\* C23: get_recommendations called with a negative limit fails with an error
\* to the caller and returns no list of recommendations
C23_NegativeLimitFails ==
    (rec.called /\ rec.limit < 0) => (rec.raised # None /\ rec.value = <<>>)

\* the scored items of the call that survive the exclude_tried filter and
\* that the catalog resolves
Resolvable(user_id, category, exclude_tried) ==
    { kv[1] : kv \in { kv \in Range(CollectScores(user_id, category, None)) :
                         /\ _get_item_details(kv[1]) # <<>>
                         /\ exclude_tried => kv[1] \notin _get_tried_items(user_id) } }

\* C30: for limit >= 0 get_recommendations returns exactly min(limit, M)
\* items, M the number of scored items that survive the exclude_tried
\* filter and that the catalog resolves: no tried or unresolvable item uses
\* up one of the limit places
C30_ResultSize ==
    (rec.called /\ rec.raised = None /\ rec.fault = None /\ rec.limit >= 0) =>
        Len(rec.value) = Min(rec.limit,
                             Cardinality(Resolvable(rec.user_id, rec.category, rec.exclude_tried)))

\* C24: build_index_from_catalog completes without an error for every
\* catalog, also for an empty one and for one none of whose entries has an
\* image that can be resolved; the index is then left as it was
C24_BuildCompletes ==
    last.op = "build_index_from_catalog" =>
        /\ last.raised = None
        /\ Len(index) >= Len(last.pre[1].index)

\* C28: after any sequence of add_items, add_item_to_index,
\* build_index_from_catalog and load calls made one at a time the index
\* holds as many vectors as item_ids holds ids, also after an add_items call
\* with a number of vectors different from the number of ids
C28_IndexAlignment == Len(index) = Len(item_ids)

\* C29: a load that fails because one of the two artifacts is missing or
\* unreadable leaves index, item_ids and metadata as they were before the call
C29_LoadAllOrNothing ==
    (last.op = "load" /\ last.raised # None) => Eng = last.pre[1]

\* C27: under any interleaving of get_visual_recommendation_service calls at
\* most one VisualRecommendationService is created for an index_dir, every
\* call with that index_dir returns that instance, and no call is handed an
\* instance built for another index_dir
C27_SingletonPerConfiguration ==
    /\ \A i, j \in 1..Len(services) :
          services[i].index_dir = services[j].index_dir => i = j
    /\ \A t \in DOMAIN th :
          th[t].pc = "service_done" => services[th[t].result[1]].index_dir = th[t].id
    /\ \A t, u \in DOMAIN th :
          (th[t].pc = "service_done" /\ th[u].pc = "service_done" /\ th[t].id = th[u].id)
              => th[t].result = th[u].result

\* two instances exist for one index_dir
C27_TwoInstances ==
    \E i, j \in 1..Len(services) : i # j /\ services[i].index_dir = services[j].index_dir

\* a caller holds the instance of another index_dir while one instance exists
C27_OtherDirectory ==
    /\ Len(services) = 1
    /\ \E t \in DOMAIN th :
          th[t].pc = "service_done" /\ services[th[t].result[1]].index_dir # th[t].id

\* the similarities, in thousandths, that the source images of the rows ids
\* give for item_id
RECURSIVE SimilaritiesOf(_, _)
SimilaritiesOf(ids, item_id) ==
    IF ids = <<>> THEN <<>>
    ELSE LET image == tryons[Head(ids)].md.image
             items == IF image = <<>> THEN <<>>
                      ELSE SelectSeq(get_similar_items_by_image(Eng, image[1], VisualK, None),
                                     LAMBDA it : it.item_id = item_id)
         IN [ j \in 1..Len(items) |-> Similarity(items[j].similarity_score) ]
              \o SimilaritiesOf(Tail(ids), item_id)

Abs(x) == IF x < 0 THEN 0 - x ELSE x

\* C25: the visual strategy scores an item by the arithmetic mean of its
\* similarity over all the recent try-on images it was returned for, whatever
\* the order of the try-ons, divided by the largest such mean (in
\* thousandths, up to one unit of rounding)
C25_VisualAveraging ==
    call.op = "strategies" =>
        LET recent  == Take(Reverse(Since(RowsOfUser(Requester), VisualDays)), VisualLimit)
            Sims(id) == SimilaritiesOf(recent, id)
            scored  == { id \in IndexIds : Sims(id) # <<>> }
            visual  == call.returned[6]
        IN \A j \in 1..Len(visual) :
             \A best \in scored :
               ( /\ \A o \in scored :
                      SumSeq(Sims(o)) * Len(Sims(best)) <= SumSeq(Sims(best)) * Len(Sims(o))
                 /\ SumSeq(Sims(best)) > 0 )
               => Abs(visual[j][2]
                      - (Scale * SumSeq(Sims(visual[j][1])) * Len(Sims(best)))
                          \div (Len(Sims(visual[j][1])) * SumSeq(Sims(best)))) <= 1

\* the try-ons of item_id by users other than the requester
TryonsByOthers(item_id) ==
    Cardinality({ i \in 1..Len(tryons) :
                    tryons[i].user_id # Requester /\ ItemIdOf(i) = item_id })

\* C26 as stated: every strategy's raw score lies in [0, 1], the collaborative
\* sum included, and so does every recommendation_score
C26_Original ==
    call.op = "strategies" =>
          /\ \A s \in 1..6 : \A j \in 1..Len(call.returned[s]) :
                call.returned[s][j][2] \in 0..Scale
          /\ \A j \in 1..Len(call.returned[7]) :
                Round3(call.returned[7][j][2]) \in 0..Scale

\* C26: the raw scores of the content, favorites, wardrobe, trending and
\* visual strategies lie in [0, 1]; the collaborative score of an item is the
\* sum over the similar users' try-ons of it, non-negative and at most 0.8 for
\* each such try-on, so it can exceed 1; the weighted sum that becomes the
\* recommendation_score is non-negative, and at most 1 for an item whose
\* collaborative score is
C26_ScoreRange ==
    call.op = "strategies" =>
          /\ \A s \in { 1, 2, 3, 5, 6 } : \A j \in 1..Len(call.returned[s]) :
                call.returned[s][j][2] \in 0..Scale
          /\ \A j \in 1..Len(call.returned[4]) :
                call.returned[4][j][2] \in 0..(800 * TryonsByOthers(call.returned[4][j][1]))
          /\ \A j \in 1..Len(call.returned[7]) :
                /\ Round3(call.returned[7][j][2]) >= 0
                /\ Get(call.returned[4], call.returned[7][j][1], 0) <= Scale
                      => Round3(call.returned[7][j][2]) <= Scale

\* the strategies have run: every one of content, favorites, collaborative,
\* trending and visual scored an item, the collaborative one above 1
C26_Witness ==
    /\ call.op = "strategies"
    /\ \A s \in { 1, 2, 4, 5, 6 } : call.returned[s] # <<>>
    /\ \E j \in 1..Len(call.returned[4]) : call.returned[4][j][2] > Scale

\* C7 - Reader/writer isolation: every result a search returns pairs an
\* item_id and its metadata with the similarity of the vector that was inserted
\* for that same entry, whatever the interleaving of add_items calls with each
\* other and with the search.
C7_ReaderWriterIsolation ==
    \A r \in Readers : th[r].pc = "done" =>
        \A i \in 1..Len(th[r].result) :
            \E w \in Writers :
                /\ th[r].result[i].item_id = th[w].id
                /\ th[r].result[i].similarity_score = Dot(th[w].f, th[r].q)
                /\ th[r].result[i].category = th[w].meta

\* C8 - save is mutually exclusive with add_items: the two artifacts one save
\* wrote hold as many vectors as item_ids, and no add_items statement runs
\* between the first and the last statement of a save.
C8_ArtifactsAgree ==
    th["b"].pc = "done" =>
        disk.faiss_index[1].ntotal = Len(disk.item_data[1].item_ids)

C8_NoAddDuringSave ==
    [][ th["b"].pc = "save_data" =>
            UNCHANGED << index, item_ids, metadata >> ]_vars

C8_SaveExclusive == []C8_ArtifactsAgree /\ C8_NoAddDuringSave

=============================================================================
